---- MODULE Spec2Model ----
(***************************************************************************)
(* A model of the sync-rs workspace: the guest session and its permission  *)
(* gate (sync-runtime), the archive container (sync-format), the archive   *)
(* store and the writable WebDAV adapter (sync-fs), the module runner and  *)
(* its host functions (sync-wasm-engine).                                  *)
(*                                                                         *)
(* Specifications:                                                         *)
(*   Spec        the session mutators, verify_permissions, get_context     *)
(*   SpecExec    GuestSession::execute_request and its effects             *)
(*   SpecEnv     the environment execute_request gives a child             *)
(*   SpecRun     WasmRunner::execute and the host calls of its guest       *)
(*   SpecRunLive SpecRun under the scheduling of a running process         *)
(*   SpecHosts   the two is_host_allowed checks                            *)
(*   SpecNames   the names the store resolves and creates archives under   *)
(*   SpecOpen    SyncArchive::open over the envelopes a file can hold      *)
(*   SpecArchive one caller of the archive and the store, with an I/O      *)
(*               error and a crash possible at every step                  *)
(*   SpecDav     one client of the writable file server                    *)
(*   SpecStore   two concurrent callers of the store and the file server   *)
(*   SpecWrites  the guest's payload_read and payload_write calls          *)
(*   SpecVault   is_vault and the password-based read and write            *)
(*   SpecIds     threads that build requests concurrently                  *)
(*   SpecReply   execute_request and what it makes of a child's output     *)
(*   SpecSyncs   one caller of the store's create, update, remove and list *)
(*   SpecRename  one client of the writable file server's rename           *)
(*   SpecIgnored one client of the writable file server on ignored names   *)
(*   SpecRace    two concurrent callers of SyncArchive::update_payload     *)
(*   SpecListing one caller of the store and a concurrent lister            *)
(*   SpecRoot    one caller of the store with relative and absolute paths  *)
(*   SpecCasts   the host calls of a guest that passes negative i32 values  *)
(*   SpecVerify  one caller of verify_sync_file over files and signatures  *)
(*   SpecServer  the background WebDAV server, its clients and shutdown    *)
(*   SpecServerLive  SpecServer under the scheduling of the tokio runtime  *)
(*   SpecMount   one client of the read-only file server of one archive    *)
(***************************************************************************)
EXTENDS Integers, Sequences, FiniteSets, TLC

VARIABLES
    session,          \* the GuestSession value (session.rs:18-37)
    REQUEST_COUNTER,  \* the process-wide AtomicU64 (session.rs:14)
    children,         \* host-app child processes spawned so far
    stdin_writes,     \* requests written to a child's standard input so far
    response,         \* what the last execute_request returned, the child it
                      \* ran and what parse_response made of the child's output
    env,              \* the environment of the process (std::env)
    command_env,      \* the environment of the Command the last call prepared
    dir,              \* the directory: path -> inode number, 0 when absent
    inode,            \* inode number -> the file's content
    zip_deflate,      \* whether the zip crate is built with its deflate codec
    archive,          \* per task, the SyncArchive value it holds, if any
    outcome,          \* per task, what its last call returned
    task,             \* per task, where it is inside the call it makes
    handle,           \* per task, the file-server handle it holds
    runner,           \* the WasmRunner and where its execute call is
    host_state,       \* the HostState of the execute call in progress
    network,          \* the hosts outbound HTTP requests were sent to
    host_check,       \* the last is_host_allowed call and what it returned
    target_os,        \* the platform the store is built for
    path_result,      \* the last name the store resolved and what it returned
    vault_check,      \* the last is_vault or password-based read and its result
    builders,         \* the threads that build requests, and the ids issued
    listing,          \* the last list_syncs, read_dir or rename call of a client
                      \* and what it returned
    mount,            \* the read-only file server of one archive and its file
    verification,     \* the last verify_sync_file call and what it returned
    server            \* the background WebDAV server and its connections

sessionVars == <<session>>
execVars == <<REQUEST_COUNTER, children, stdin_writes, response, env, command_env>>
fsVars == <<dir, inode, zip_deflate, archive, outcome, task, handle>>
engineVars == <<runner, host_state, network, host_check>>
nameVars == <<target_os, path_result>>
restVars == <<vault_check, builders, listing, mount, verification, server>>

vars == <<session, REQUEST_COUNTER, children, stdin_writes, response,
          env, command_env, dir, inode, zip_deflate, archive, outcome, task, handle,
          runner, host_state, network, host_check, target_os, path_result,
          vault_check, builders, listing, mount, verification, server>>

Range(s) == {s[i] : i \in DOMAIN s}

\* Option<T>: None, or Some(x).
None == <<>>
Some(x) == <<x>>

(***************************************************************************)
(* Bounds of the model.                                                    *)
(***************************************************************************)
\* execute_request calls that build a request, per behaviour
MaxRequests == 2
\* write_bytes calls that reach a write handle's buffer
MaxWrites == 2
\* host function calls a runner's guests make, per behaviour
MaxCalls == 2
\* Request ids the threads of SpecIds draw.
MaxIds == 4
\* The furthest position a client seeks to.
MaxPosition == 6
\* Connections the clients of the background server open, per behaviour.
MaxConnections == 3
\* Requests a client sends over one connection.
MaxServed == 2

(***************************************************************************)
(* Inputs the mutators are called with.                                    *)
(***************************************************************************)
HostNames == {"example.com", "evil.com"}
EnvNames == {"FOO", "BAZ"}
HostApps == {"host-app"}

\* WidgetBounds values set_widget_bounds is called with: a valid one and the
\* two it must reject.
WidgetBoundsChoices ==
    { [x |-> 0, y |-> 0, width |-> 10, height |-> 10],
      [x |-> 0, y |-> 0, width |-> 0, height |-> 10],
      [x |-> 0, y |-> 0, width |-> 10, height |-> 0] }

\* The [permissions] section of the archive of the tests.
TestManifestPermissions ==
    [allow_hosts |-> <<"example.com", "api.local">>, allow_env |-> <<"FOO", "BAR">>]

\* The [permissions] section of the archive the session is opened on: the
\* default (both lists empty), the manifest of the tests, and one that
\* declares what the other leaves out.
ManifestPermissionsChoices ==
    { [allow_hosts |-> <<>>, allow_env |-> <<>>],
      TestManifestPermissions,
      [allow_hosts |-> <<"evil.com">>, allow_env |-> <<>>] }

GuestActions ==
    {"ReadPayload", "ReadContext", "WritePayload", "WriteContext", "ExecuteWasm",
     "UpdatePayload"}

PermissionFlags ==
    {"can_read_payload", "can_read_context", "can_write_payload", "can_write_context",
     "can_execute_wasm"}

(***************************************************************************)
(* GuestSession                                                            *)
(***************************************************************************)
\* GuestSession::new
new(manifest_permissions) ==
    [ mode |-> "Widget",
      role |-> "Consumer",
      permissions |->
          [ can_read_payload |-> TRUE,
            can_read_context |-> TRUE,
            can_write_payload |-> FALSE,
            can_write_context |-> FALSE,
            can_execute_wasm |-> FALSE,
            allowed_hosts |-> <<>>,
            allowed_env |-> <<>> ],
      manifest_permissions |-> manifest_permissions,
      sync_path |-> <<"a", "sync">>,
      host_app |-> None,
      cpu_limit_ms |-> None,
      memory_limit_mb |-> None,
      widget_bounds |-> None ]

\* A mutator takes &mut self: it changes the session and nothing else.
SessionStep(s) ==
    session' = s /\ UNCHANGED <<execVars, fsVars, engineVars, nameVars, restVars>>

\* The host-app argument is kept when it is not blank (an Err otherwise).
set_host_app(host_app) ==
    /\ host_app /= ""
    /\ SessionStep([session EXCEPT !.host_app = Some(host_app)])

as_widget(host_app) ==
    SessionStep([session EXCEPT !.mode = "Widget", !.host_app = Some(host_app)])

as_headless(host_app) ==
    SessionStep([session EXCEPT !.mode = "Headless", !.host_app = Some(host_app)])

as_consumer == SessionStep([session EXCEPT !.role = "Consumer"])

as_owner == SessionStep([session EXCEPT !.role = "Owner"])

grant_read_payload == SessionStep([session EXCEPT !.permissions.can_read_payload = TRUE])

grant_read_context == SessionStep([session EXCEPT !.permissions.can_read_context = TRUE])

grant_write_payload == SessionStep([session EXCEPT !.permissions.can_write_payload = TRUE])

grant_context_write == SessionStep([session EXCEPT !.permissions.can_write_context = TRUE])

grant_wasm_execution == SessionStep([session EXCEPT !.permissions.can_execute_wasm = TRUE])

revoke_wasm_execution == SessionStep([session EXCEPT !.permissions.can_execute_wasm = FALSE])

\* `permissions` is a public field of a public struct: a caller may store any
\* flag value in it, the only way a read flag is ever cleared.
assign_permission_flag(flag, value) ==
    SessionStep([session EXCEPT !.permissions[flag] = value])

allow_host(host) ==
    SessionStep(
        IF host \in Range(session.permissions.allowed_hosts)
        THEN session
        ELSE [session EXCEPT !.permissions.allowed_hosts = Append(@, host)])

allow_env_var(var) ==
    SessionStep(
        IF var \in Range(session.permissions.allowed_env)
        THEN session
        ELSE [session EXCEPT !.permissions.allowed_env = Append(@, var)])

set_cpu_limit_ms(limit_ms) ==
    SessionStep([session EXCEPT !.cpu_limit_ms = Some(limit_ms)])

set_memory_limit_mb(limit_mb) ==
    SessionStep([session EXCEPT !.memory_limit_mb = Some(limit_mb)])

\* Zero width or zero height is an Err and leaves the session as it was.
set_widget_bounds(bounds) ==
    /\ ~(bounds.width = 0 \/ bounds.height = 0)
    /\ SessionStep([session EXCEPT !.widget_bounds = Some(bounds)])

\* intersect_allowlist reading an empty manifest list as "no restriction".
intersect_allowlist_open(host, manifest) ==
    IF host = <<>>
    THEN <<>>
    ELSE IF manifest = <<>>
         THEN host
         ELSE LET manifest_set == Range(manifest)
                  contains(item) == item \in manifest_set
              IN  SelectSeq(host, contains)

intersect_allowlist(host, manifest) ==
    IF host = <<>> \/ manifest = <<>>
    THEN <<>>
    ELSE LET manifest_set == Range(manifest)
             contains(item) == item \in manifest_set
         IN  SelectSeq(host, contains)

effective_permissions(s) ==
    [s.permissions EXCEPT
        !.allowed_env = intersect_allowlist(s.permissions.allowed_env,
                                            s.manifest_permissions.allow_env),
        !.allowed_hosts = intersect_allowlist(s.permissions.allowed_hosts,
                                              s.manifest_permissions.allow_hosts)]

get_context(s) ==
    [ mode |-> s.mode,
      role |-> s.role,
      permissions |-> effective_permissions(s),
      host_app |-> s.host_app ]

Ok == [code |-> "Ok", message |-> ""]
GuestError(code, message) == [code |-> code, message |-> message]

\* required_flag with UpdatePayload checked against the context-write flag.
required_flag_swapped(action) ==
    CASE action = "ReadPayload" -> "can_read_payload"
      [] action = "ReadContext" -> "can_read_context"
      [] action = "WritePayload" -> "can_write_payload"
      [] action \in {"WriteContext", "UpdatePayload"} -> "can_write_context"
      [] action = "ExecuteWasm" -> "can_execute_wasm"

\* The flag verify_permissions reads for an action.
required_flag(action) ==
    CASE action = "ReadPayload" -> "can_read_payload"
      [] action = "ReadContext" -> "can_read_context"
      [] action \in {"WritePayload", "UpdatePayload"} -> "can_write_payload"
      [] action = "WriteContext" -> "can_write_context"
      [] action = "ExecuteWasm" -> "can_execute_wasm"

denied_message(action) ==
    CASE action = "ReadPayload" -> "read payload not allowed"
      [] action = "ReadContext" -> "read context not allowed"
      [] action \in {"WritePayload", "UpdatePayload"} -> "write payload not allowed"
      [] action = "WriteContext" -> "write context not allowed"
      [] action = "ExecuteWasm" -> "execute wasm not allowed"

\* consumer_gate letting UpdatePayload through with the reads.
consumer_gate_update(s, action) ==
    s.role = "Consumer" /\ action \notin {"ReadPayload", "ReadContext", "UpdatePayload"}

\* The role match at the head of verify_permissions.
consumer_gate(s, action) ==
    s.role = "Consumer" /\ action \notin {"ReadPayload", "ReadContext"}

verify_permissions(s, action) ==
    IF consumer_gate(s, action)
    THEN GuestError("PermissionDenied", "Owner context required")
    ELSE IF ~effective_permissions(s)[required_flag(action)]
         THEN GuestError("PermissionDenied", denied_message(action))
         ELSE Ok

(***************************************************************************)
(* GuestSession::execute_request                                           *)
(***************************************************************************)
\* next_request_id: "guest-<seq>" for the value fetch_add returns; a response
\* carries Some(seq), or None when no request was built.
next_request_id == Some(REQUEST_COUNTER)

build_request(action) ==
    [ version |-> "guest.v1",
      request_id |-> next_request_id,
      action |-> action,
      context |-> get_context(session) ]

\* apply_env_policy without the arm for headless mode.
apply_env_policy_widget_only(s) ==
    IF s.mode = "Widget" /\ s.widget_bounds = None
    THEN GuestError("InvalidRequest", "widget bounds are required for widget mode")
    ELSE Ok

\* The mode/bounds match at the head of apply_env_policy.
apply_env_policy(s) ==
    IF s.mode = "Widget" /\ s.widget_bounds = None
    THEN GuestError("InvalidRequest", "widget bounds are required for widget mode")
    ELSE IF s.mode = "Headless" /\ s.widget_bounds /= None
         THEN GuestError("InvalidRequest", "widget bounds are not allowed for headless mode")
         ELSE Ok

\* Names of environment variables: the five baseline names, names with the
\* CAPSULE_ or ATO_ prefix, the keys apply_env_policy sets itself, and names
\* that are none of these.
BaselineKeys == <<"PATH", "LANG", "LC_ALL", "HOME", "USER">>
PrefixedKeys == {"CAPSULE_X", "ATO_Y", "CAPSULE_GUEST_PROTOCOL"}
InjectedKeys ==
    {"ALLOW_HOSTS", "ALLOW_ENV", "CAPSULE_GUEST_PROTOCOL", "SYNC_PATH", "GUEST_MODE",
     "GUEST_ROLE", "GUEST_CPU_LIMIT_MS", "GUEST_MEMORY_LIMIT_MB", "GUEST_WIDGET_BOUNDS"}
OtherKeys == {"FOO", "BAR", "BAZ", "SECRET"}
EnvKeys == Range(BaselineKeys) \cup PrefixedKeys \cup InjectedKeys \cup OtherKeys

\* key.starts_with("CAPSULE_") || key.starts_with("ATO_")
starts_with_prefix(key) == key \in PrefixedKeys

\* Command::env_clear: a Command that inherits nothing and sets nothing.
env_clear == [k \in EnvKeys |-> None]

\* Command::env(key, value)
command_env_set(cmd, key, value) == [cmd EXCEPT ![key] = Some(value)]

\* list.join(","): the items with a comma between two of them.
RECURSIVE join(_)
join(list) ==
    IF list = <<>> THEN <<>>
    ELSE IF Len(list) = 1 THEN <<list[1]>>
    ELSE <<list[1], ",">> \o join(Tail(list))

\* u32::to_string and u64::to_string on the numbers the callers pass.
to_string(n) ==
    CASE n = 0 -> "0"
      [] n = 5 -> "5"
      [] n = 10 -> "10"
      [] n = 64 -> "64"

\* apply_baseline_env: the baseline names and the prefixed names the process
\* has, with its values.
apply_baseline_env(cmd, e) ==
    [k \in EnvKeys |->
        IF (k \in Range(BaselineKeys) \/ starts_with_prefix(k)) /\ e[k] /= None
        THEN e[k] ELSE cmd[k]]

\* The loop of apply_env_policy over a list of allowed names.
forward_allowed(cmd, e, allowed_env) ==
    [k \in EnvKeys |->
        IF k \in Range(allowed_env) /\ e[k] /= None THEN e[k] ELSE cmd[k]]

\* forward_allowed_env over the session's own list.
forward_allowed_env_raw(cmd, e, s) ==
    forward_allowed(cmd, e, s.permissions.allowed_env)

forward_allowed_env(cmd, e, s) ==
    forward_allowed(cmd, e, effective_permissions(s).allowed_env)

\* The keys apply_env_policy sets after the forwarded ones, in its order.
inject_env(cmd, s, request) ==
    LET effective == effective_permissions(s)
        c1 == command_env_set(cmd, "ALLOW_HOSTS", join(effective.allowed_hosts))
        c2 == command_env_set(c1, "ALLOW_ENV", join(effective.allowed_env))
        c3 == command_env_set(c2, "CAPSULE_GUEST_PROTOCOL", <<request.version>>)
        c4 == command_env_set(c3, "SYNC_PATH", s.sync_path)
        c5 == command_env_set(c4, "GUEST_MODE",
                              IF s.mode = "Widget" THEN <<"widget">> ELSE <<"headless">>)
        c6 == command_env_set(c5, "GUEST_ROLE",
                              IF s.role = "Consumer" THEN <<"consumer">> ELSE <<"owner">>)
        c7 == IF s.cpu_limit_ms /= None
              THEN command_env_set(c6, "GUEST_CPU_LIMIT_MS", <<to_string(s.cpu_limit_ms[1])>>)
              ELSE c6
        c8 == IF s.memory_limit_mb /= None
              THEN command_env_set(c7, "GUEST_MEMORY_LIMIT_MB",
                                   <<to_string(s.memory_limit_mb[1])>>)
              ELSE c7
    IN  IF s.mode = "Widget" /\ s.widget_bounds /= None
        THEN command_env_set(c8, "GUEST_WIDGET_BOUNDS",
                 LET bounds == s.widget_bounds[1] IN
                 <<to_string(bounds.x), ",", to_string(bounds.y), ",",
                   to_string(bounds.width), ",", to_string(bounds.height)>>)
        ELSE c8

\* The environment apply_env_policy leaves in the Command when it returns Ok.
policy_env(s, e, request) ==
    inject_env(forward_allowed_env(apply_baseline_env(env_clear, e), e, s), s, request)

GUEST_PROTOCOL_VERSION == "guest.v1"

\* guest.rs 101-112.
GuestResponse(version, request_id, ok, result, error) ==
    [version |-> version, request_id |-> request_id, ok |-> ok,
     result |-> result, error |-> error]

NoGuestResponse == GuestResponse("", None, FALSE, None, None)

\* The bytes of an output stream, by what they are: nothing, text that is
\* not JSON, JSON that is not a GuestResponse (a required field is missing),
\* or the JSON of a GuestResponse.
Output(kind, value) == [kind |-> kind, response |-> value]

\* What a child does with a stream: the kind of bytes it writes and, for a
\* response, its fields. The child read the request, so the request_id it
\* writes is the request's ("echo") or the one before it ("other").
Script(kind, version, id, ok, error) ==
    [kind |-> kind, version |-> version, id |-> id, ok |-> ok, error |-> error]

Silent == Script("empty", "", "echo", FALSE, None)

\* The bytes a script leaves on its stream for a request.
written(script, request) ==
    IF script.kind /= "response" THEN Output(script.kind, NoGuestResponse)
    ELSE Output("response",
                GuestResponse(script.version,
                              IF script.id = "echo" THEN request.request_id
                              ELSE Some(request.request_id[1] - 1),
                              script.ok,
                              IF script.ok THEN Some("value") ELSE None,
                              script.error))

\* serde_json::from_slice::<GuestResponse>.
from_slice(bytes) ==
    IF bytes.kind = "response" THEN Some(bytes.response) ELSE None

\* session.rs 469-486.
protocol_error(request_id, message, stdout, stderr) ==
    GuestResponse(GUEST_PROTOCOL_VERSION, request_id, FALSE, Some("stdout, stderr"),
                  Some(GuestError("ProtocolError", message)))

\* parse_response without the request_id comparison.
parse_response_any_id(request_id, stdout, stderr) ==
    LET parsed == IF from_slice(stdout) /= None THEN from_slice(stdout)
                  ELSE IF stderr.kind = "empty" THEN None
                  ELSE from_slice(stderr)
    IN IF parsed = None
       THEN protocol_error(request_id, "expected value", stdout, stderr)
       ELSE IF parsed[1].version /= GUEST_PROTOCOL_VERSION
       THEN protocol_error(request_id, "protocol version mismatch", stdout, stderr)
       ELSE parsed[1]

\* session.rs 439-467.
parse_response(request_id, stdout, stderr) ==
    LET parsed == IF from_slice(stdout) /= None THEN from_slice(stdout)
                  ELSE IF stderr.kind = "empty" THEN None
                  ELSE from_slice(stderr)
    IN IF parsed = None
       THEN protocol_error(request_id, "expected value", stdout, stderr)
       ELSE IF parsed[1].request_id /= request_id
       THEN protocol_error(request_id, "request_id mismatch", stdout, stderr)
       ELSE IF parsed[1].version /= GUEST_PROTOCOL_VERSION
       THEN protocol_error(request_id, "protocol version mismatch", stdout, stderr)
       ELSE parsed[1]

\* after_exit without the look at the exit status.
after_exit_any_status(success, parsed) ==
    IF ~parsed.ok /\ parsed.error = None
    THEN [parsed EXCEPT !.error =
              Some(GuestError("ExecutionFailed", "Guest failed without error payload"))]
    ELSE parsed

\* session.rs 320-333: what execute_request makes of the parsed response
\* and the child's exit status.
after_exit(success, parsed) ==
    LET downgraded ==
            IF ~success /\ parsed.ok
            THEN [parsed EXCEPT !.ok = FALSE,
                                !.error = Some(GuestError("ExecutionFailed",
                                                          "Guest exited with status"))]
            ELSE parsed
    IN IF ~downgraded.ok /\ downgraded.error = None
       THEN [downgraded EXCEPT !.error =
                 Some(GuestError("ExecutionFailed", "Guest failed without error payload"))]
       ELSE downgraded

\* What the operating system and the child do with a spawned request: the
\* spawn fails, the write to its stdin fails, waiting for it fails, or it
\* writes to its streams and exits.
Child(what, stdout, stderr, success) ==
    [outcome |-> what, stdout |-> stdout, stderr |-> stderr, success |-> success]

NoChild == Child("", Silent, Silent, FALSE)

\* A child that answers the request it read and exits with status 0.
Replies ==
    Child("replies", Script("response", GUEST_PROTOCOL_VERSION, "echo", TRUE, None),
          Silent, TRUE)

ChildOutcomes ==
    {Child("spawn_fails", Silent, Silent, FALSE),
     Child("stdin_fails", Silent, Silent, FALSE),
     Replies}

Returned(action, result, request_id) ==
    [action |-> action, code |-> result.code, message |-> result.message,
     request_id |-> request_id, child |-> NoChild, parsed |-> None, reply |-> None]

\* execute_request building the request before it asks verify_permissions.
execute_request_build_first(action, child) ==
    /\ UNCHANGED <<session, children, stdin_writes, env, command_env, fsVars, engineVars,
                 nameVars, restVars>>
    /\ REQUEST_COUNTER <= MaxRequests
    /\ REQUEST_COUNTER' = REQUEST_COUNTER + 1
    /\ response' = Returned(action, verify_permissions(session, action), next_request_id)

\* One call, in the order of the code: the permission gate, the host-app
\* lookup, build_request (which takes a request id), apply_env_policy, spawn,
\* the write to the child's stdin, the child's reply.
execute_request(action, child) ==
    /\ UNCHANGED <<session, env, fsVars, engineVars, nameVars, restVars>>
    /\ LET gate == verify_permissions(session, action) IN
       IF gate /= Ok
       THEN /\ response' = Returned(action, gate, None)
            /\ command_env' = None
            /\ UNCHANGED <<REQUEST_COUNTER, children, stdin_writes>>
       ELSE IF session.host_app = None
       THEN /\ response' = Returned(action,
                               GuestError("HostUnavailable", "Host app not configured"), None)
            /\ command_env' = None
            /\ UNCHANGED <<REQUEST_COUNTER, children, stdin_writes>>
       ELSE /\ REQUEST_COUNTER <= MaxRequests
            /\ LET request == build_request(action)
                   policy == apply_env_policy(session)
               IN  /\ REQUEST_COUNTER' = REQUEST_COUNTER + 1
                   /\ command_env' = IF policy = Ok
                                      THEN Some(policy_env(session, env, request))
                                      ELSE None
                   /\ IF policy /= Ok
                      THEN /\ response' = Returned(action, policy, request.request_id)
                           /\ UNCHANGED <<children, stdin_writes>>
                      ELSE IF child.outcome = "spawn_fails"
                      THEN /\ response' = Returned(action,
                                   GuestError("ExecutionFailed", "spawn"), request.request_id)
                           /\ UNCHANGED <<children, stdin_writes>>
                      ELSE IF child.outcome = "stdin_fails"
                      THEN /\ response' = Returned(action,
                                   GuestError("IoError", "write"), request.request_id)
                           /\ children' = children + 1
                           /\ UNCHANGED stdin_writes
                      ELSE IF child.outcome = "wait_fails"
                      THEN /\ response' = [Returned(action,
                                   GuestError("ExecutionFailed", "wait"), request.request_id)
                                   EXCEPT !.child = child]
                           /\ children' = children + 1
                           /\ stdin_writes' = stdin_writes + 1
                      ELSE /\ LET parsed == parse_response(request.request_id,
                                                           written(child.stdout, request),
                                                           written(child.stderr, request))
                              IN response' =
                                   [Returned(action, Ok, request.request_id)
                                      EXCEPT !.child = child,
                                             !.parsed = Some(parsed),
                                             !.reply = Some(after_exit(child.success,
                                                                       parsed))]
                           /\ children' = children + 1
                           /\ stdin_writes' = stdin_writes + 1

(***************************************************************************)
(* The envelope: a zip file. A file is the sequence of entries written so  *)
(* far and whether the writer finished it (central directory present).     *)
(* Bytes are strings; an entry's data is a sequence of bytes.              *)
(***************************************************************************)
CompressionMethods == {"Stored", "Deflated"}

Entry(name, compression, data) ==
    [name |-> name, compression |-> compression, data |-> data]

FreeFile == [entries |-> <<>>, finished |-> FALSE]

\* The local file header that precedes an entry's data.
LocalFileHeader(e) == <<"PK\\3\\4", e.name>>

\* The bytes an entry's data occupies in the file: the data itself when
\* stored, a compressed stream otherwise.
RawData(e) ==
    IF e.compression = "Stored" THEN e.data ELSE <<"deflate-stream">> \o e.data

EntryBytes(e) == LocalFileHeader(e) \o RawData(e)

RECURSIVE Concat(_)
Concat(seqs) ==
    IF seqs = <<>> THEN <<>> ELSE Head(seqs) \o Concat(Tail(seqs))

CentralDirectory(entries) ==
    Concat([i \in 1..Len(entries) |-> <<"PK\\1\\2", entries[i].name>>]) \o <<"PK\\5\\6">>

\* The bytes of a file as a reader of the path sees them.
FileBytes(file) ==
    Concat([i \in 1..Len(file.entries) |-> EntryBytes(file.entries[i])])
        \o (IF file.finished THEN CentralDirectory(file.entries) ELSE <<>>)

\* Where entry i's local file header begins in the file.
header_start(entries, i) ==
    Len(Concat([j \in 1..(i - 1) |-> EntryBytes(entries[j])]))

\* ZipFile::data_start: where entry i's data begins in the file.
data_start(entries, i) ==
    Len(Concat([j \in 1..(i - 1) |-> EntryBytes(entries[j])]))
        + Len(LocalFileHeader(entries[i]))

Min(S) == CHOOSE x \in S : \A y \in S : x <= y
Max(S) == CHOOSE x \in S : \A y \in S : y <= x

\* Result<T>: Ok(value) or Err(error); detail is the error's text.
OkResult(value) == [code |-> "Ok", detail |-> "", value |-> Some(value)]
ErrResult(code, detail) == [code |-> code, detail |-> detail, value |-> None]
NoResult == [code |-> "", detail |-> "", value |-> None]

\* The manifest text: well-formed TOML carrying the fields the model uses,
\* or something Manifest::from_toml rejects.
ManifestToml(content_type, display_ext) == <<"toml", content_type, display_ext>>

\* Host names and allowlist patterns, as the sequences of their labels and
\* dots: a suffix of the text is a suffix of the sequence.
ApiExampleCom == <<"api", ".", "example", ".", "com">>
XapiExampleCom == <<"x", "api", ".", "example", ".", "com">>
OtherExampleCom == <<"other", ".", "example", ".", "com">>
ExampleCom == <<"example", ".", "com">>
EvilCom == <<"evil", ".", "com">>
NotExampleCom == <<"not", "example", ".", "com">>
WildExampleCom == <<"*", ".", "example", ".", "com">>

\* The [permissions] allow_hosts arrays a manifest text of the model holds,
\* by the word that stands for the array in the text.
AllowHostsTexts == {"", "api", "wild", "api,evil", "wild,evil", "evil,api,wild"}

allow_hosts_of(text) ==
    IF text = "api" THEN <<ApiExampleCom>>
    ELSE IF text = "wild" THEN <<WildExampleCom>>
    ELSE IF text = "api,evil" THEN <<ApiExampleCom, EvilCom>>
    ELSE IF text = "wild,evil" THEN <<WildExampleCom, EvilCom>>
    ELSE IF text = "evil,api,wild" THEN <<EvilCom, ApiExampleCom, WildExampleCom>>
    ELSE <<>>

SyncVariants == {"plain", "vault", "app", "data"}

\* A manifest text that also sets sync.variant and permissions.allow_hosts.
ManifestTomlWith(content_type, display_ext, variant, hosts) ==
    <<"toml", content_type, display_ext, variant, hosts>>

\* A manifest text that also has an [encryption] table, enabled = "true" or
\* "false".
ManifestTomlEncryption(content_type, display_ext, variant, hosts, enabled) ==
    <<"toml", content_type, display_ext, variant, hosts, enabled>>

\* Manifest::from_toml. sync.variant, permissions.allow_hosts and encryption
\* are #[serde(default)]: Plain, the empty list and enabled = false when the
\* text omits them.
from_toml(data) ==
    IF Len(data) = 3 /\ data[1] = "toml"
    THEN OkResult([content_type |-> data[2], display_ext |-> data[3],
                   variant |-> "plain", allow_hosts |-> <<>>,
                   encryption_enabled |-> FALSE])
    ELSE IF Len(data) = 5 /\ data[1] = "toml" /\ data[4] \in SyncVariants
                          /\ data[5] \in AllowHostsTexts
    THEN OkResult([content_type |-> data[2], display_ext |-> data[3],
                   variant |-> data[4], allow_hosts |-> allow_hosts_of(data[5]),
                   encryption_enabled |-> FALSE])
    ELSE IF Len(data) = 6 /\ data[1] = "toml" /\ data[4] \in SyncVariants
                          /\ data[5] \in AllowHostsTexts /\ data[6] \in {"true", "false"}
    THEN OkResult([content_type |-> data[2], display_ext |-> data[3],
                   variant |-> data[4], allow_hosts |-> allow_hosts_of(data[5]),
                   encryption_enabled |-> (data[6] = "true")])
    ELSE ErrResult("TomlError", "manifest.toml")

\* SyncManifest::is_vault (manifest.rs 268-270).
SyncManifest_is_vault(manifest) ==
    manifest.variant = "vault" \/ manifest.encryption_enabled

\* SyncArchive::is_vault (format.rs 189-191).
SyncArchive_is_vault(a) == a.manifest.variant = "vault"

\* File::open followed by ZipArchive::new on a path of file system (d, n).
ZipArchive_new(d, n, path) ==
    IF d[path] = 0 THEN ErrResult("Io", "No such file or directory")
    ELSE IF ~n[d[path]].finished THEN ErrResult("ZipError", "invalid Zip archive")
    ELSE OkResult(n[d[path]].entries)

\* ZipArchive::by_index fails on an entry whose compression method the
\* build of the zip crate has no codec for.
by_index_fails(deflate, e) == e.compression /= "Stored" /\ ~deflate

SyncEntry(entries, i) ==
    [name |-> entries[i].name,
     offset |-> data_start(entries, i),
     size |-> Len(entries[i].data),
     compression |-> entries[i].compression]

IndicesOf(entries, name) == {i \in DOMAIN entries : entries[i].name = name}

\* SyncArchive::open without its sync.wasm check.
SyncArchive_open_no_wasm_check(d, n, deflate, path) ==
    LET zip == ZipArchive_new(d, n, path) IN
    IF zip.code /= "Ok" THEN zip
    ELSE
      LET entries == zip.value[1]
          returns_early ==
              {i \in DOMAIN entries :
                  \/ by_index_fails(deflate, entries[i])
                  \/ entries[i].name = "payload" /\ entries[i].compression /= "Stored"}
          manifests == IndicesOf(entries, "manifest.toml")
          payloads == IndicesOf(entries, "payload")
      IN
      IF returns_early /= {}
      THEN IF by_index_fails(deflate, entries[Min(returns_early)])
           THEN ErrResult("ZipError", "Compression method not supported")
           ELSE ErrResult("InvalidFormat", "payload must be stored (no compression)")
      ELSE IF manifests = {} THEN ErrResult("MissingEntry", "manifest.toml")
      ELSE LET manifest == from_toml(entries[Max(manifests)].data) IN
           IF manifest.code /= "Ok" THEN manifest
           ELSE OkResult(
                  [path |-> path,
                   entries |-> [i \in DOMAIN entries |-> SyncEntry(entries, i)],
                   manifest |-> manifest.value[1],
                   payload_offset |->
                       IF payloads = {} THEN None
                       ELSE Some(data_start(entries, Max(payloads))),
                   payload_size |->
                       IF payloads = {} THEN None
                       ELSE Some(Len(entries[Max(payloads)].data))])

\* SyncArchive::open on a path of file system (d, n).
SyncArchive_open(d, n, deflate, path) ==
    LET zip == ZipArchive_new(d, n, path) IN
    IF zip.code /= "Ok" THEN zip
    ELSE
      LET entries == zip.value[1]
          returns_early ==
              {i \in DOMAIN entries :
                  \/ by_index_fails(deflate, entries[i])
                  \/ entries[i].name = "payload" /\ entries[i].compression /= "Stored"}
          manifests == IndicesOf(entries, "manifest.toml")
          payloads == IndicesOf(entries, "payload")
          has_wasm == IndicesOf(entries, "sync.wasm") /= {}
      IN
      IF returns_early /= {}
      THEN IF by_index_fails(deflate, entries[Min(returns_early)])
           THEN ErrResult("ZipError", "Compression method not supported")
           ELSE ErrResult("InvalidFormat", "payload must be stored (no compression)")
      ELSE IF manifests = {} THEN ErrResult("MissingEntry", "manifest.toml")
      ELSE IF ~has_wasm THEN ErrResult("MissingEntry", "sync.wasm")
      ELSE LET manifest == from_toml(entries[Max(manifests)].data) IN
           IF manifest.code /= "Ok" THEN manifest
           ELSE OkResult(
                  [path |-> path,
                   entries |-> [i \in DOMAIN entries |-> SyncEntry(entries, i)],
                   manifest |-> manifest.value[1],
                   payload_offset |->
                       IF payloads = {} THEN None
                       ELSE Some(data_start(entries, Max(payloads))),
                   payload_size |->
                       IF payloads = {} THEN None
                       ELSE Some(Len(entries[Max(payloads)].data))])

\* SyncArchive::read_payload: the payload entry of the file at self.path.
read_payload(d, n, deflate, a) ==
    LET zip == ZipArchive_new(d, n, a.path) IN
    IF zip.code /= "Ok" THEN zip
    ELSE LET payloads == IndicesOf(zip.value[1], "payload") IN
         IF payloads = {} THEN ErrResult("ZipError", "specified file not found in archive")
         ELSE IF by_index_fails(deflate, zip.value[1][Max(payloads)])
         THEN ErrResult("ZipError", "Compression method not supported")
         ELSE OkResult(zip.value[1][Max(payloads)].data)

\* age passphrase encryption, by what it does to the bytes of the model: a
\* header that only the passphrase opens, then a ciphertext byte for every
\* plaintext byte. A byte's ciphertext is another byte.
encrypt_byte(b) ==
    IF b = "h" THEN "#h" ELSE IF b = "i" THEN "#i" ELSE IF b = "n" THEN "#n"
    ELSE IF b = "e" THEN "#e" ELSE IF b = "w" THEN "#w" ELSE "#0"

decrypt_byte(c) ==
    IF c = "#h" THEN "h" ELSE IF c = "#i" THEN "i" ELSE IF c = "#n" THEN "n"
    ELSE IF c = "#e" THEN "e" ELSE IF c = "#w" THEN "w" ELSE "\\0"

CipherBytes == {"#h", "#i", "#n", "#e", "#w", "#0"}

\* format.rs 246-257.
encrypt_data(data, password) ==
    <<"age-encryption.org/v1", password>>
        \o [i \in 1..Len(data) |-> encrypt_byte(data[i])]

\* format.rs 263-282.
decrypt_data(encrypted, password) ==
    IF Len(encrypted) < 2 \/ encrypted[1] /= "age-encryption.org/v1"
    THEN ErrResult("DecryptError", "Header is invalid")
    ELSE IF encrypted[2] /= password
    THEN ErrResult("DecryptError", "Decryption failed")
    ELSE IF \E i \in 3..Len(encrypted) : encrypted[i] \notin CipherBytes
    THEN ErrResult("Io", "decryption error")
    ELSE OkResult([i \in 1..(Len(encrypted) - 2) |-> decrypt_byte(encrypted[i + 2])])

\* SyncArchive::read_payload_with_password.
read_payload_with_password(d, n, deflate, a, password) ==
    IF ~SyncArchive_is_vault(a) THEN read_payload(d, n, deflate, a)
    ELSE LET encrypted == read_payload(d, n, deflate, a) IN
         IF encrypted.code /= "Ok" THEN encrypted
         ELSE decrypt_data(encrypted.value[1], password)

(***************************************************************************)
(* Paths. A file name is the sequence of its dot-separated components:     *)
(* "a.txt" is <<"a", "txt">> and ".DS_Store" is <<"", "DS_Store">>. Every   *)
(* file of the model lies in the store's base directory.                   *)
(***************************************************************************)
Tasks == {"t1", "t2"}

Last(s) == s[Len(s)]
Front(s) == SubSeq(s, 1, Len(s) - 1)

\* A name below the base directory carries its directory in its first
\* component: "d/._a.txt" is <<"d/", "_a", "txt">>. Path::parent and
\* Path::file_name take it apart.
parent(p) == IF Len(p) >= 1 /\ p[1] = "d/" THEN "d/" ELSE ""
file_name(p) == IF parent(p) = "" THEN p ELSE <<"">> \o Tail(p)

\* Path::extension and Path::file_stem: a name that only begins with a dot
\* has no extension.
has_extension(p) == Len(p) >= 2 /\ ~(Len(p) = 2 /\ file_name(p)[1] = "")
extension(p) == IF has_extension(p) THEN Last(p) ELSE ""
file_stem(p) == IF has_extension(p) THEN Front(p) ELSE p
with_extension(p, ext) == file_stem(p) \o ext

ends_with_sync(name) == Len(name) >= 2 /\ Last(name) = "sync"

ensure_sync_extension(name) ==
    IF ends_with_sync(name) THEN name ELSE name \o <<"sync">>

sync_path_for(name) == ensure_sync_extension(name)

display_ext_from_name(name) ==
    LET without_sync == IF ends_with_sync(name) THEN Front(name) ELSE name
    IN extension(without_sync)

normalize_display_ext(display_ext) == display_ext

to_ascii_lowercase(s) ==
    CASE s = "TXT" -> "txt"
      [] s = "Json" -> "json"
      [] OTHER -> s

guess_content_type_none(name) == "application/octet-stream"

guess_content_type(name) ==
    LET ext == to_ascii_lowercase(extension(name)) IN
    CASE ext = "txt" -> "text/plain"
      [] ext = "csv" -> "text/csv"
      [] ext = "json" -> "application/json"
      [] ext = "xlsx" -> "application/vnd.openxmlformats-officedocument.spreadsheetml.sheet"
      [] ext = "pdf" -> "application/pdf"
      [] ext = "png" -> "image/png"
      [] ext \in {"jpg", "jpeg"} -> "image/jpeg"
      [] ext = "svg" -> "image/svg+xml"
      [] ext \in {"html", "htm"} -> "text/html"
      [] ext = "md" -> "text/markdown"
      [] OTHER -> "application/octet-stream"

\* Components that begin with an underscore, so that "." followed by one of
\* them begins with "._".
UnderscoreLed == {"_a"}

is_ignored_name(name) ==
    \/ Len(name) >= 2 /\ name[1] = "" /\ name[2] \in UnderscoreLed
    \/ name = <<"", "DS_Store">>

display_name_for_archive(base_name, display_ext) ==
    IF Len(base_name) > 1 THEN base_name
    ELSE IF display_ext = "" THEN base_name
    ELSE base_name \o <<display_ext>>

\* The names a client of the file server uses.
DavNames == {<<"a", "txt">>, <<"b", "TXT">>, <<"c">>, <<"", "_a", "txt">>}

\* The temp file name tempfile::Builder draws for a task: unique per call.
TempPathFor_shared(t) == <<"", "tmp", "sync-1", "sync">>

TempPathFor(t) ==
    IF t = "t1" THEN <<"", "tmp", "sync-1", "sync">>
    ELSE <<"", "tmp", "sync-2", "sync">>

ArchiveA == <<"a", "sync">>
\* The names of the files a desktop leaves beside the ones it edits, in the
\* base directory and in its directory d.
IgnoredNames ==
    {<<"", "_a", "txt">>, <<"", "DS_Store">>, <<"d/", "_a", "txt">>, <<"d/", "DS_Store">>}

ArchivePaths == {ArchiveA} \cup {sync_path_for(name) : name \in DavNames \cup IgnoredNames}
Paths ==
    ArchivePaths
    \cup {<<"/a", "sync">>}
    \cup {with_extension(p, <<"sync", "tmp">>) : p \in ArchivePaths}
    \cup {TempPathFor(t) : t \in Tasks}

InodeIds == {1, 2, 3, 4, 5, 6}

minimal_wasm == <<"\\0asm">>

(***************************************************************************)
(* Tasks: a task is a caller that is idle or inside one call; handle is    *)
(* the file-server handle it holds.                                        *)
(***************************************************************************)
IdleTask ==
    [pc |-> "idle", op |-> "", commits |-> FALSE, target |-> <<>>, name |-> <<>>,
     content_type |-> "", src |-> <<>>, zip |-> <<>>, i |-> 0,
     tmp_path |-> <<>>, tmp_ino |-> 0]

\* The options of an open call.
OpenOptions(write, create, create_new, truncate, append) ==
    [write |-> write, create |-> create, create_new |-> create_new,
     truncate |-> truncate, append |-> append]

NoOptions == OpenOptions(FALSE, FALSE, FALSE, FALSE, FALSE)

OpenOptionsChoices ==
    {NoOptions,
     OpenOptions(TRUE, FALSE, FALSE, FALSE, FALSE),
     OpenOptions(TRUE, TRUE, FALSE, TRUE, FALSE),
     OpenOptions(TRUE, FALSE, TRUE, FALSE, FALSE),
     OpenOptions(TRUE, FALSE, FALSE, FALSE, TRUE)}

NoHandle ==
    [kind |-> "None", name |-> <<>>, options |-> NoOptions,
     is_existing |-> FALSE, target |-> <<>>, content_type |-> "",
     buffer |-> <<>>, writes |-> 0, committed |-> FALSE,
     offset |-> 0, size |-> 0, ino |-> 0, position |-> 0, data |-> <<>>]

Referenced(d, tk, hd, i) ==
    \/ \E p \in Paths : d[p] = i
    \/ \E t \in Tasks : tk[t].tmp_ino = i \/ hd[t].ino = i

\* A file nobody names or holds open is gone.
Collect(d, tk, hd, n) ==
    [i \in InodeIds |-> IF Referenced(d, tk, hd, i) THEN n[i] ELSE FreeFile]

HasFreeInode == \E i \in InodeIds : ~Referenced(dir, task, handle, i)
NewInode == Min({i \in InodeIds : ~Referenced(dir, task, handle, i)})

\* The four ways a step leaves the file system and the session.
Frozen == UNCHANGED <<sessionVars, execVars, zip_deflate, engineVars, nameVars, restVars>>

NoOutcome == [call |-> "", code |-> "", detail |-> ""]

\* Task t's call returns r.
Returns(t, call, r) ==
    outcome' = [outcome EXCEPT ![t] =
                   [call |-> call, code |-> r.code, detail |-> r.detail]]

\* map_io_error, map_store_error and map_sync_error: the FsError the file
\* server returns for an error of the store or of the archive.
map_error(r) ==
    IF r.code \in {"Ok", ""} THEN r
    ELSE IF r.code = "Io"
         THEN IF r.detail = "No such file or directory" THEN ErrResult("NotFound", "")
              ELSE IF r.detail = "AlreadyExists" THEN ErrResult("Exists", "")
              ELSE ErrResult("GeneralFailure", "")
    ELSE ErrResult("GeneralFailure", "")

\* A call of task t ends with result r. Inside a flush the result is that of
\* commit_write (writable.rs 782-810): the mapped error, or committed = true.
Ends(t, r) ==
    /\ task' = [task EXCEPT ![t] = IdleTask]
    /\ handle' = IF task[t].commits /\ r.code = "Ok"
                 THEN [handle EXCEPT ![t].committed = TRUE]
                 ELSE handle
    /\ Returns(t, IF task[t].commits THEN "flush" ELSE task[t].op,
               IF task[t].commits THEN map_error(r) ELSE r)

FsStep(d, n) ==
    /\ dir' = d
    /\ inode' = Collect(d, task', handle', n)

\* The caller's step: SyncArchive::open(path), keeping the value on success.
OpenArchive(t, path) ==
    LET r == SyncArchive_open(dir, inode, zip_deflate, path) IN
    /\ task[t].pc = "idle"
    /\ Returns(t, "open_archive", r)
    /\ archive' = [archive EXCEPT ![t] = r.value]
    /\ UNCHANGED <<dir, inode, task, handle>>
    /\ Frozen

(***************************************************************************)
(* SyncArchive::update_payload, SyncStore::update_payload_from_path and    *)
(* SyncStore::create_sync_from_path, one step per file-system call.        *)
(***************************************************************************)
Started(t, op, flush, target, name, content_type, src, zip) ==
    [IdleTask EXCEPT !.pc = "create_temp", !.op = op, !.commits = flush,
                     !.target = target, !.name = name,
                     !.content_type = content_type, !.src = src, !.zip = zip]

\* format.rs 148-151: open the archive file of self.path.
update_payload_call(t, new_payload) ==
    /\ task[t].pc = "idle"
    /\ archive[t] /= None
    /\ LET archive_path == archive[t][1].path
           zip == ZipArchive_new(dir, inode, archive_path)
       IN IF zip.code /= "Ok"
          THEN /\ Returns(t, "update_payload", zip)
               /\ UNCHANGED task
          ELSE /\ Returns(t, "", NoResult)
               /\ task' = [task EXCEPT ![t] =
                              Started(t, "update_payload", FALSE, archive_path,
                                      <<>>, "", new_payload, zip.value[1])]
    /\ UNCHANGED <<dir, inode, archive, handle>>

\* The caller's step: update_payload on the archive value it holds.
update_payload(t, new_payload) ==
    /\ update_payload_call(t, new_payload)
    /\ Frozen

\* sync_store.rs 104-112: open the payload file and the archive file.
update_payload_from_path_begin(t, sync_path, payload, flush) ==
    LET zip == ZipArchive_new(dir, inode, sync_path) IN
    IF zip.code /= "Ok"
    THEN /\ Returns(t, IF flush THEN "flush" ELSE "update_payload_from_path",
                    IF flush THEN map_error(zip) ELSE zip)
         /\ UNCHANGED task
    ELSE /\ Returns(t, "", NoResult)
         /\ task' = [task EXCEPT ![t] =
                        Started(t, "update_payload_from_path", flush, sync_path,
                                <<>>, "", payload, zip.value[1])]

\* sync_store.rs 67-80: the target path, the manifest and the payload file.
create_sync_from_path_begin(t, name, payload, content_type, flush) ==
    /\ Returns(t, "", NoResult)
    /\ task' = [task EXCEPT ![t] =
                   Started(t, "create_sync_from_path", flush, sync_path_for(name),
                           name, content_type, payload, <<>>)]

update_payload_from_path(t, sync_path, payload) ==
    /\ task[t].pc = "idle"
    /\ update_payload_from_path_begin(t, sync_path, payload, FALSE)
    /\ UNCHANGED <<dir, inode, archive, handle>>
    /\ Frozen

create_sync_from_path(t, name, payload, content_type) ==
    /\ task[t].pc = "idle"
    /\ create_sync_from_path_begin(t, name, payload, content_type, FALSE)
    /\ UNCHANGED <<dir, inode, archive, handle>>
    /\ Frozen

AfterTemp(t) ==
    IF task[t].op = "create_sync_from_path" THEN "new_manifest"
    ELSE IF task[t].zip = <<>> THEN "payload" ELSE "copy"

\* format.rs 153-155: File::create on the fixed sibling path; an existing
\* file of that name is truncated.
create_temp_file_in_place(t) ==
    LET temp_path == task[t].target IN
    /\ task[t].pc = "create_temp"
    /\ task[t].op = "update_payload"
    /\ dir[temp_path] /= 0 \/ HasFreeInode
    /\ LET ino == IF dir[temp_path] /= 0 THEN dir[temp_path] ELSE NewInode IN
       /\ task' = [task EXCEPT ![t].pc = AfterTemp(t), ![t].i = 1,
                               ![t].tmp_path = temp_path, ![t].tmp_ino = ino]
       /\ UNCHANGED <<archive, outcome, handle>>
       /\ FsStep([dir EXCEPT ![temp_path] = ino], [inode EXCEPT ![ino] = FreeFile])
    /\ Frozen

create_temp_file(t) ==
    LET temp_path == with_extension(task[t].target, <<"sync", "tmp">>) IN
    /\ task[t].pc = "create_temp"
    /\ task[t].op = "update_payload"
    /\ dir[temp_path] /= 0 \/ HasFreeInode
    /\ LET ino == IF dir[temp_path] /= 0 THEN dir[temp_path] ELSE NewInode IN
       /\ task' = [task EXCEPT ![t].pc = AfterTemp(t), ![t].i = 1,
                               ![t].tmp_path = temp_path, ![t].tmp_ino = ino]
       /\ UNCHANGED <<archive, outcome, handle>>
       /\ FsStep([dir EXCEPT ![temp_path] = ino], [inode EXCEPT ![ino] = FreeFile])
    /\ Frozen

\* sync_store.rs 82-85 and 113-116: a NamedTempFile of a fresh name in the
\* archive's directory; creation fails on a name that exists.
tempfile_in(t) ==
    LET temp_path == TempPathFor(t) IN
    /\ task[t].pc = "create_temp"
    /\ task[t].op /= "update_payload"
    /\ IF dir[temp_path] /= 0
       THEN /\ Ends(t, ErrResult("Io", "AlreadyExists"))
            /\ UNCHANGED archive
            /\ FsStep(dir, inode)
       ELSE /\ HasFreeInode
            /\ task' = [task EXCEPT ![t].pc = AfterTemp(t), ![t].i = 1,
                                    ![t].tmp_path = temp_path,
                                    ![t].tmp_ino = NewInode]
            /\ UNCHANGED <<archive, outcome, handle>>
            /\ FsStep([dir EXCEPT ![temp_path] = NewInode],
                      [inode EXCEPT ![NewInode] = FreeFile])
    /\ Frozen

\* Dropping a NamedTempFile removes the file of its name; the temp file of
\* SyncArchive::update_payload is a plain File and stays.
DropTemp(t) ==
    IF task[t].op /= "update_payload" /\ task[t].tmp_ino /= 0
          /\ dir[task[t].tmp_path] = task[t].tmp_ino
    THEN [dir EXCEPT ![task[t].tmp_path] = 0]
    ELSE dir

AppendEntry(t, e) ==
    [inode EXCEPT ![task[t].tmp_ino].entries = Append(@, e)]

\* format.rs 161-173 and sync_store.rs 192-203: one turn of the copy loop.
\* update_payload writes every entry stored, the store keeps its method.
copy_entry(t) ==
    LET e == task[t].zip[task[t].i]
        method == IF task[t].op = "update_payload" THEN "Stored" ELSE e.compression
        next == IF task[t].i = Len(task[t].zip) THEN "payload" ELSE "copy"
    IN
    /\ task[t].pc = "copy"
    /\ IF by_index_fails(zip_deflate, e)
       THEN /\ Ends(t, ErrResult("ZipError", "Compression method not supported"))
            /\ UNCHANGED archive
            /\ FsStep(DropTemp(t), inode)
       ELSE /\ task' = [task EXCEPT ![t].pc = next, ![t].i = @ + 1]
            /\ UNCHANGED <<archive, outcome, handle>>
            /\ FsStep(dir, IF e.name = "payload" THEN inode
                           ELSE AppendEntry(t, Entry(e.name, method, e.data)))
    /\ Frozen

WriteEntry(t, pc, e, next) ==
    /\ task[t].pc = pc
    /\ task' = [task EXCEPT ![t].pc = next]
    /\ UNCHANGED <<archive, outcome, handle>>
    /\ FsStep(dir, AppendEntry(t, e))
    /\ Frozen

\* format.rs 175-176 and sync_store.rs 205-208: the new payload, stored.
write_payload(t) ==
    WriteEntry(t, "payload", Entry("payload", "Stored", task[t].src), "finish")

\* sync_store.rs 172-179: write_new_archive's three entries.
write_new_manifest(t) ==
    WriteEntry(t, "new_manifest",
               Entry("manifest.toml", "Stored",
                     ManifestToml(task[t].content_type,
                                  normalize_display_ext(display_ext_from_name(task[t].name)))),
               "new_payload")

write_new_payload(t) ==
    WriteEntry(t, "new_payload", Entry("payload", "Stored", task[t].src), "new_wasm")

write_new_wasm(t) ==
    WriteEntry(t, "new_wasm", Entry("sync.wasm", "Stored", minimal_wasm), "finish")

\* format.rs 178 and sync_store.rs 181, 210: ZipWriter::finish.
finish(t) ==
    /\ task[t].pc = "finish"
    /\ task' = [task EXCEPT ![t].pc = "rename"]
    /\ UNCHANGED <<archive, outcome, handle>>
    /\ FsStep(dir, [inode EXCEPT ![task[t].tmp_ino].finished = TRUE])
    /\ Frozen

\* format.rs 180 and sync_store.rs 214-218: rename the temp path over the
\* target path.
rename(t) ==
    /\ task[t].pc = "rename"
    /\ IF dir[task[t].tmp_path] = 0
       THEN /\ Ends(t, ErrResult("Io", "No such file or directory"))
            /\ UNCHANGED archive
            /\ FsStep(dir, inode)
       ELSE /\ IF task[t].op = "update_payload"
               THEN /\ task' = [task EXCEPT ![t].pc = "reopen", ![t].tmp_ino = 0]
                    /\ UNCHANGED <<outcome, handle>>
               ELSE Ends(t, OkResult(<<>>))
            /\ UNCHANGED archive
            /\ FsStep(IF task[t].tmp_path = task[t].target THEN dir
                      ELSE [dir EXCEPT ![task[t].target] = dir[task[t].tmp_path],
                                       ![task[t].tmp_path] = 0],
                      inode)
    /\ Frozen

\* update_payload returning without the reload of format.rs 183.
reopen_keeps_index(t) ==
    /\ task[t].pc = "reopen"
    /\ Ends(t, OkResult(<<>>))
    /\ UNCHANGED archive
    /\ FsStep(dir, inode)
    /\ Frozen

\* format.rs 183: *self = Self::open(archive_path)?
reopen(t) ==
    LET r == SyncArchive_open(dir, inode, zip_deflate, task[t].target) IN
    /\ task[t].pc = "reopen"
    /\ Ends(t, r)
    /\ archive' = IF r.code = "Ok" THEN [archive EXCEPT ![t] = r.value] ELSE archive
    /\ FsStep(dir, inode)
    /\ Frozen

WritingPcs ==
    {"create_temp", "copy", "payload", "new_manifest", "new_payload",
     "new_wasm", "finish", "rename"}

\* Any file-system call of the write path fails: the call returns the error.
io_error(t) ==
    /\ task[t].pc \in WritingPcs
    /\ Ends(t, ErrResult("Io", "I/O error"))
    /\ UNCHANGED archive
    /\ FsStep(DropTemp(t), inode)
    /\ Frozen

\* The process is killed inside a call: nothing runs any more, and no
\* destructor removes a temp file.
crash(t) ==
    /\ task[t].pc \in WritingPcs \cup {"reopen"}
    /\ task' = [u \in Tasks |-> [task[u] EXCEPT !.pc = "crashed", !.tmp_ino = 0]]
    /\ handle' = [u \in Tasks |-> NoHandle]
    /\ UNCHANGED <<archive, outcome>>
    /\ FsStep(dir, inode)
    /\ Frozen

(***************************************************************************)
(* The writable file server: WritableSyncFs::open and the handle's         *)
(* read_bytes, write_bytes, flush and drop.                                *)
(***************************************************************************)
\* find_sync_in_dir: the archives of the directory whose display name is the
\* name asked for; read_dir's order decides which of them is returned.
find_sync_in_dir(d, n, deflate, display_name) ==
    LET matches ==
            {p \in Paths :
                /\ d[p] /= 0
                /\ extension(p) = "sync"
                /\ LET r == SyncArchive_open(d, n, deflate, p) IN
                   /\ r.code = "Ok"
                   /\ display_name_for_archive(file_stem(p),
                                               r.value[1].manifest.display_ext)
                          = display_name}
    IN IF matches = {} THEN {None} ELSE {Some(p) : p \in matches}

\* WritableSyncFs::resolve_sync_path: the archives a name may resolve to.
resolve_sync_path(d, n, deflate, name) ==
    IF d[sync_path_for(name)] /= 0 THEN {Some(sync_path_for(name))}
    ELSE find_sync_in_dir(d, n, deflate, name)

Answers(t, call, r) ==
    /\ Returns(t, call, r)
    /\ UNCHANGED <<dir, inode, archive, task>>
    /\ Frozen

\* writable.rs 166-202: open up to the write path; the read path starts.
open(t, name, options) ==
    LET wants_write ==
            options.write \/ options.create \/ options.create_new \/ options.truncate
    IN
    /\ task[t].pc = "idle"
    /\ handle[t].kind = "None"
    /\ IF is_ignored_name(name)
       THEN /\ handle' = [handle EXCEPT ![t].kind = "Noop", ![t].name = name,
                                        ![t].options = options]
            /\ Answers(t, "open", OkResult(<<>>))
       ELSE IF options.append
       THEN /\ UNCHANGED handle
            /\ Answers(t, "open", ErrResult("NotImplemented", ""))
       ELSE \E existing \in resolve_sync_path(dir, inode, zip_deflate, name) :
            IF wants_write
            THEN IF options.create_new /\ existing /= None
                 THEN /\ UNCHANGED handle
                      /\ Answers(t, "open", ErrResult("Exists", ""))
                 ELSE IF existing = None /\ ~options.create /\ ~options.create_new
                 THEN /\ UNCHANGED handle
                      /\ Answers(t, "open", ErrResult("NotFound", ""))
                 ELSE /\ handle' =
                            [handle EXCEPT ![t] =
                                IF existing /= None
                                THEN [NoHandle EXCEPT
                                         !.name = name, !.options = options,
                                         !.kind = "Write", !.is_existing = TRUE,
                                         !.target = existing[1],
                                         !.content_type = "application/octet-stream"]
                                ELSE [NoHandle EXCEPT
                                         !.name = name, !.options = options,
                                         !.kind = "Write", !.is_existing = FALSE,
                                         !.target = name,
                                         !.content_type = guess_content_type(name)]]
                      /\ Answers(t, "open", OkResult(<<>>))
            ELSE IF existing = None
                 THEN /\ UNCHANGED handle
                      /\ Answers(t, "open", ErrResult("NotFound", ""))
                 ELSE /\ task' = [task EXCEPT ![t].pc = "entry_from_path",
                                              ![t].op = "open",
                                              ![t].target = existing[1]]
                      /\ handle' = [handle EXCEPT ![t].name = name,
                                                  ![t].options = options]
                      /\ Returns(t, "", NoResult)
                      /\ UNCHANGED <<dir, inode, archive>>
                      /\ Frozen

\* writable.rs 205 and 102-122: entry_from_path opens the archive, takes the
\* payload entry's offset and size, and closes it.
entry_from_path(t) ==
    LET r == SyncArchive_open(dir, inode, zip_deflate, task[t].target) IN
    /\ task[t].pc = "entry_from_path"
    /\ IF r.code /= "Ok"
       THEN /\ task' = [task EXCEPT ![t] = IdleTask]
            /\ handle' = [handle EXCEPT ![t] = NoHandle]
            /\ Returns(t, "open", map_error(r))
       ELSE IF r.value[1].payload_offset = None
       THEN /\ task' = [task EXCEPT ![t] = IdleTask]
            /\ handle' = [handle EXCEPT ![t] = NoHandle]
            /\ Returns(t, "open", ErrResult("NotFound", ""))
       ELSE /\ task' = [task EXCEPT ![t].pc = "file_open"]
            /\ handle' = [handle EXCEPT ![t].offset = r.value[1].payload_offset[1],
                                        ![t].size = r.value[1].payload_size[1]]
            /\ Returns(t, "", NoResult)
    /\ UNCHANGED archive
    /\ FsStep(dir, inode)
    /\ Frozen

\* writable.rs 206-208: File::open on the path, and the handle is made of
\* the entry taken before and this file.
file_open(t) ==
    LET ino == dir[task[t].target] IN
    /\ task[t].pc = "file_open"
    /\ IF ino = 0
       THEN /\ task' = [task EXCEPT ![t] = IdleTask]
            /\ handle' = [handle EXCEPT ![t] = NoHandle]
            /\ Returns(t, "open", ErrResult("NotFound", ""))
       ELSE /\ task' = [task EXCEPT ![t] = IdleTask]
            /\ handle' = [handle EXCEPT ![t].kind = "Read", ![t].ino = ino]
            /\ Returns(t, "open", OkResult(<<>>))
    /\ UNCHANGED archive
    /\ FsStep(dir, inode)
    /\ Frozen

\* FileExt::read_at: up to count bytes of the file from an offset.
read_at(bytes, offset, count) ==
    SubSeq(bytes, offset + 1, IF offset + count <= Len(bytes)
                              THEN offset + count ELSE Len(bytes))

\* writable.rs 723-739: read_from_entry through read_bytes.
read_bytes(t, count) ==
    LET h == handle[t]
        remaining == IF h.size >= h.position THEN h.size - h.position ELSE 0
        to_read == IF count <= remaining THEN count ELSE remaining
        buffer == read_at(FileBytes(inode[h.ino]), h.offset + h.position, to_read)
    IN
    /\ task[t].pc = "idle"
    /\ h.kind = "Read"
    /\ handle' = [handle EXCEPT ![t].position = @ + Len(buffer),
                                ![t].data = @ \o buffer]
    /\ Answers(t, "read_bytes", OkResult(buffer))

\* writable.rs 772-780: write_bytes appends to the handle's temp file.
write_bytes(t, buf) ==
    /\ task[t].pc = "idle"
    /\ handle[t].kind /= "None"
    /\ IF handle[t].kind = "Noop"
       THEN /\ UNCHANGED handle
            /\ Answers(t, "write_bytes", OkResult(<<>>))
       ELSE IF handle[t].kind = "Read" \/ handle[t].committed
       THEN /\ UNCHANGED handle
            /\ Answers(t, "write_bytes", ErrResult("Forbidden", ""))
       ELSE /\ handle[t].writes < MaxWrites
            /\ handle' = [handle EXCEPT ![t].buffer = @ \o buf,
                                        ![t].writes = @ + 1]
            /\ Answers(t, "write_bytes", OkResult(<<>>))

\* flush that commits whenever it is called.
flush_every_time(t) ==
    /\ task[t].pc = "idle"
    /\ handle[t].kind /= "None"
    /\ IF handle[t].kind /= "Write"
       THEN /\ UNCHANGED handle
            /\ Answers(t, "flush", OkResult(<<>>))
       ELSE /\ IF handle[t].is_existing
               THEN update_payload_from_path_begin(t, handle[t].target,
                                                   handle[t].buffer, TRUE)
               ELSE create_sync_from_path_begin(t, handle[t].target,
                                                handle[t].buffer,
                                                handle[t].content_type, TRUE)
            /\ UNCHANGED <<dir, inode, archive, handle>>
            /\ Frozen

\* writable.rs 611-617 and 782-810: flush commits a write handle through the
\* store, once.
flush(t) ==
    /\ task[t].pc = "idle"
    /\ handle[t].kind /= "None"
    /\ IF handle[t].kind /= "Write" \/ handle[t].committed
       THEN /\ UNCHANGED handle
            /\ Answers(t, "flush", OkResult(<<>>))
       ELSE /\ IF handle[t].is_existing
               THEN update_payload_from_path_begin(t, handle[t].target,
                                                   handle[t].buffer, TRUE)
               ELSE create_sync_from_path_begin(t, handle[t].target,
                                                handle[t].buffer,
                                                handle[t].content_type, TRUE)
            /\ UNCHANGED <<dir, inode, archive, handle>>
            /\ Frozen

\* The handle is dropped: an uncommitted buffer is discarded.
drop(t) ==
    /\ task[t].pc = "idle"
    /\ handle[t].kind /= "None"
    /\ handle' = [handle EXCEPT ![t] = NoHandle]
    /\ UNCHANGED <<archive, outcome, task>>
    /\ FsStep(dir, inode)
    /\ Frozen

NoTasks ==
    /\ archive = [t \in Tasks |-> None]
    /\ outcome = [t \in Tasks |-> NoOutcome]
    /\ task = [t \in Tasks |-> IdleTask]
    /\ handle = [t \in Tasks |-> NoHandle]

FsIdle ==
    /\ dir = [p \in Paths |-> 0]
    /\ inode = [i \in InodeIds |-> FreeFile]
    /\ zip_deflate = TRUE
    /\ NoTasks

(***************************************************************************)
(* sync-wasm-engine: the allowlist checks, the host functions a guest      *)
(* calls and WasmRunner::execute. A URL is the sequence of its parts:      *)
(* "https://api.example.com:8080/v1" is                                    *)
(* <<"https", "://", "api", ".", "example", ".", "com", ":", "8080", "/",  *)
(* "v1">>.                                                                 *)
(***************************************************************************)
\* str::find: the index of the first occurrence, 0 for None.
find(s, part) ==
    IF \E i \in DOMAIN s : s[i] = part
    THEN Min({i \in DOMAIN s : s[i] = part})
    ELSE 0

starts_with(s, prefix) ==
    Len(prefix) <= Len(s) /\ SubSeq(s, 1, Len(prefix)) = prefix

ends_with(s, suffix) ==
    Len(suffix) <= Len(s) /\ SubSeq(s, Len(s) - Len(suffix) + 1, Len(s)) = suffix

\* str::trim_start_matches: every leading repetition of the prefix removed.
RECURSIVE trim_start_matches(_, _)
trim_start_matches(s, prefix) ==
    IF starts_with(s, prefix)
    THEN trim_start_matches(SubSeq(s, Len(prefix) + 1, Len(s)), prefix)
    ELSE s

\* host.rs 45-59: the part of the URL the check takes for the host.
host_of_url(url) ==
    LET pos == find(url, "://") IN
    IF pos = 0 THEN url
    ELSE LET rest == SubSeq(url, pos + 1, Len(url))
             slash_pos == find(rest, "/")
             host == IF slash_pos /= 0 THEN SubSeq(rest, 1, slash_pos - 1) ELSE rest
             colon_pos == find(host, ":")
         IN IF colon_pos /= 0 THEN SubSeq(host, 1, colon_pos - 1) ELSE host

\* HostState::is_host_allowed.
HostState_is_host_allowed(allowed_hosts, url) ==
    /\ allowed_hosts /= <<>>
    /\ LET host == host_of_url(url) IN
       \E i \in DOMAIN allowed_hosts :
           \/ allowed_hosts[i] = host
           \/ /\ starts_with(allowed_hosts[i], <<"*", ".">>)
              /\ ends_with(host, SubSeq(allowed_hosts[i], 3, Len(allowed_hosts[i])))

\* Manifest::is_host_allowed.
Manifest_is_host_allowed(allow_hosts, host) ==
    /\ allow_hosts /= <<>>
    /\ \E i \in DOMAIN allow_hosts :
           \/ allow_hosts[i] = host
           \/ ends_with(host, trim_start_matches(allow_hosts[i], <<"*", ".">>))

\* The host client.get(url).send() connects to: the URL's authority without
\* its userinfo and port. None for a text that is no absolute URL.
url_host(url) ==
    IF find(url, "://") /= 2 THEN None
    ELSE LET rest == SubSeq(url, 3, Len(url))
             ends == {i \in DOMAIN rest : rest[i] \in {"/", "?", "#"}}
             authority == IF ends = {} THEN rest ELSE SubSeq(rest, 1, Min(ends) - 1)
             ats == {i \in DOMAIN authority : authority[i] = "@"}
             host_port == IF ats = {} THEN authority
                          ELSE SubSeq(authority, Max(ats) + 1, Len(authority))
             colon_pos == find(host_port, ":")
             host == IF colon_pos /= 0 THEN SubSeq(host_port, 1, colon_pos - 1)
                     ELSE host_port
         IN IF host = <<>> THEN None ELSE Some(host)

NoHostCheck == [fn |-> "", allowed |-> <<>>, arg |-> <<>>, result |-> FALSE]

\* A caller asks the HostState of an allowlist about a URL.
ask_host_state(allowed_hosts, url) ==
    /\ host_check' = [fn |-> "HostState::is_host_allowed", allowed |-> allowed_hosts,
                      arg |-> url,
                      result |-> HostState_is_host_allowed(allowed_hosts, url)]
    /\ UNCHANGED <<sessionVars, execVars, fsVars, nameVars, restVars, runner, host_state, network>>

\* A caller asks the manifest of an allowlist about a host.
ask_manifest(allow_hosts, host) ==
    /\ host_check' = [fn |-> "Manifest::is_host_allowed", allowed |-> allow_hosts,
                      arg |-> host,
                      result |-> Manifest_is_host_allowed(allow_hosts, host)]
    /\ UNCHANGED <<sessionVars, execVars, fsVars, nameVars, restVars, runner, host_state, network>>

\* WasmRunner::new, and a process that executes nothing.
NewRunner ==
    [pc |-> "idle", password |-> None, decrypted_payload |-> None,
     entry |-> "", is_vault |-> FALSE, calls |-> 0, call |-> "", url |-> <<>>,
     offset |-> 0, len |-> 0, data |-> <<>>, ret |-> 0,
     out |-> <<>>, spin |-> FALSE, result |-> NoResult]

EngineIdle ==
    /\ runner = NewRunner
    /\ host_state = None
    /\ network = <<>>
    /\ host_check = NoHostCheck

EngineStep ==
    UNCHANGED <<sessionVars, execVars, fsVars, nameVars, restVars, network, host_check>>

\* WasmRunner::with_password, before any execute.
with_password(password) ==
    /\ runner.pc = "idle"
    /\ runner.result = NoResult
    /\ runner' = [runner EXCEPT !.password = Some(password)]
    /\ UNCHANGED host_state
    /\ EngineStep

\* HostState::new.
HostState_new(sync_path, allowed_hosts, timeout_secs) ==
    [sync_path |-> sync_path, payload_buffer |-> <<>>, updated_payload |-> None,
     last_response |-> <<>>, allowed_hosts |-> allowed_hosts,
     timeout_secs |-> timeout_secs]

\* ExecutionConfig::default().timeout_secs.
timeout_secs == 30

\* runner.rs 148-175: File::open, seek to the entry's offset and read_exact
\* of the entry's size.
read_entry_data(d, n, path, offset, size) ==
    IF d[path] = 0 THEN ErrResult("Io", "No such file or directory")
    ELSE LET bytes == FileBytes(n[d[path]]) IN
         IF offset + size > Len(bytes)
         THEN ErrResult("Io", "failed to fill whole buffer")
         ELSE OkResult(read_at(bytes, offset, size))

\* WasmRunner::read_payload_data.
read_payload_data(d, n, a) ==
    LET payloads == IndicesOf(a.entries, "payload") IN
    IF payloads = {} THEN ErrResult("InvalidInput", "No payload found")
    ELSE LET entry == a.entries[Min(payloads)] IN
         read_entry_data(d, n, a.path, entry.offset, entry.size)

\* WasmRunner::read_wasm_data.
read_wasm_data(d, n, a) ==
    LET wasms == IndicesOf(a.entries, "sync.wasm") IN
    IF wasms = {} THEN ErrResult("InvalidInput", "No sync.wasm found")
    ELSE LET entry == a.entries[Min(wasms)] IN
         read_entry_data(d, n, a.path, entry.offset, entry.size)

\* The function the module exports for execute to call.
EntryPoints == {"run", "_start", ""}

\* execute returns r to its caller; the Store and its HostState are dropped.
execute_returns(r, decrypted_payload) ==
    /\ runner' = [runner EXCEPT !.pc = "idle", !.result = r,
                                !.decrypted_payload = decrypted_payload]
    /\ host_state' = None

ExecutionResult(payload_updated) ==
    OkResult([success |-> TRUE, payload_updated |-> payload_updated])

\* runner.rs 62-105: execute up to the call of the guest's function, on the
\* archive value task t1 holds.
execute(entry_point) ==
    /\ runner.pc = "idle"
    /\ task["t1"].pc = "idle"
    /\ archive["t1"] /= None
    /\ LET a == archive["t1"][1]
           payload_data == read_payload_data(dir, inode, a)
           is_vault == a.manifest.variant = "vault"
           decrypted_payload ==
               IF is_vault THEN payload_data.value ELSE runner.decrypted_payload
           wasm_bytes == read_wasm_data(dir, inode, a)
       IN IF payload_data.code /= "Ok"
          THEN execute_returns(payload_data, runner.decrypted_payload)
          ELSE IF is_vault /\ runner.password = None
          THEN execute_returns(ErrResult("InvalidInput", "Vault archive requires password"),
                               runner.decrypted_payload)
          ELSE IF wasm_bytes.code /= "Ok"
          THEN execute_returns(wasm_bytes, decrypted_payload)
          ELSE IF wasm_bytes.value[1] /= minimal_wasm
          THEN execute_returns(ErrResult("Wasm", "failed to parse WebAssembly module"),
                               decrypted_payload)
          ELSE IF entry_point = ""
          THEN execute_returns(ErrResult("Wasm", "No entry point found"),
                               decrypted_payload)
          ELSE /\ runner' = [runner EXCEPT !.pc = "guest", !.entry = entry_point,
                                           !.is_vault = is_vault,
                                           !.decrypted_payload = decrypted_payload,
                                           !.result = NoResult]
               /\ host_state' =
                      Some([HostState_new(a.path, a.manifest.allow_hosts, timeout_secs)
                                EXCEPT !.payload_buffer = payload_data.value[1]])
    /\ EngineStep

\* A host function returns ret to the guest: url is the URL it was called
\* with, out what it wrote to the guest's memory.
HostCall(call, url, ret, out) ==
    runner' = [runner EXCEPT !.calls = @ + 1, !.call = call, !.url = url,
                             !.offset = 0, !.len = 0, !.data = <<>>,
                             !.ret = ret, !.out = out]

\* The same for a call with an offset, a length (len or max_len) and bytes of
\* the guest's memory.
HostCallAt(call, offset, len, data, ret, out) ==
    runner' = [runner EXCEPT !.calls = @ + 1, !.call = call, !.url = <<>>,
                             !.offset = offset, !.len = len, !.data = data,
                             !.ret = ret, !.out = out]

\* A host function panics inside the call: nothing is returned to the guest,
\* and the panic unwinds through the guest's function into execute's caller.
HostPanics(call, offset, len) ==
    runner' = [runner EXCEPT !.pc = "panicked", !.calls = @ + 1, !.call = call,
                             !.url = <<>>, !.offset = offset, !.len = len,
                             !.data = <<>>, !.ret = 0, !.out = <<>>]

\* A usize of a 64-bit target, written as wraps * 2^64 + rest: the values a
\* sign-extended i32 and the lengths of the model's buffers give lie next to
\* 0 (wraps = 0, rest >= 0) or next to 2^64 (wraps = 1, rest < 0).
usize_of(n) == [wraps |-> 0, rest |-> n]

\* `i as usize` of an i32: a negative i is sign-extended, to 2^64 + i.
as_usize(i) == IF i < 0 THEN [wraps |-> 1, rest |-> i] ELSE usize_of(i)

usize_lt(a, b) == a.wraps < b.wraps \/ (a.wraps = b.wraps /\ a.rest < b.rest)

usize_le(a, b) == ~usize_lt(b, a)

usize_min(a, b) == IF usize_lt(b, a) THEN b ELSE a

\* a + b does not fit a usize: it reaches 2^64.
add_overflows(a, b) ==
    a.wraps + b.wraps = 2 \/ (a.wraps + b.wraps = 1 /\ a.rest + b.rest >= 0)

\* a + b modulo 2^64, what a build without overflow checks computes.
wrapping_add(a, b) ==
    IF a.wraps + b.wraps = 2 THEN [wraps |-> 1, rest |-> a.rest + b.rest]
    ELSE IF a.wraps + b.wraps = 1 /\ a.rest + b.rest >= 0
    THEN usize_of(a.rest + b.rest)
    ELSE [wraps |-> a.wraps + b.wraps, rest |-> a.rest + b.rest]

\* A Vec of this many bytes cannot be allocated: more than isize::MAX, which
\* vec!, Vec::resize and Vec::with_capacity answer with a panic.
exceeds_isize_MAX(a) == a.wraps = 1

\* Whether the build checks arithmetic for overflow (debug) or wraps (release).
OverflowChecks == BOOLEAN

InGuest == runner.pc = "guest" /\ runner.calls < MaxCalls

\* What the network does with a request that is sent.
SendOutcomes == {"text", "no text", "no response"}
ResponseBody == <<"o", "k">>

\* HostFunctions::http_request. url_in_memory is whether the guest's pointers
\* lie in its memory.
http_request(url, url_in_memory, sent) ==
    /\ InGuest
    /\ LET state == host_state[1] IN
       IF ~url_in_memory
       THEN HostCall("http_request", url, -1, <<>>) /\ UNCHANGED <<host_state, network>>
       ELSE IF ~HostState_is_host_allowed(state.allowed_hosts, url)
       THEN HostCall("http_request", url, -2, <<>>) /\ UNCHANGED <<host_state, network>>
       ELSE IF url_host(url) = None
       THEN HostCall("http_request", url, -5, <<>>) /\ UNCHANGED <<host_state, network>>
       ELSE /\ network' = Append(network, url_host(url)[1])
            /\ IF sent = "text"
               THEN /\ HostCall("http_request", url, 200, <<>>)
                    /\ host_state' = Some([state EXCEPT !.last_response = ResponseBody])
               ELSE /\ HostCall("http_request", url, IF sent = "no text" THEN -4 ELSE -5, <<>>)
                    /\ UNCHANGED host_state
    /\ UNCHANGED <<sessionVars, execVars, fsVars, nameVars, restVars, host_check>>

\* HostFunctions::last_response_read.
last_response_read(max_len) ==
    /\ InGuest
    /\ LET data == host_state[1].last_response
           write_len == usize_min(usize_of(Len(data)), as_usize(max_len)).rest
       IN HostCallAt("last_response_read", 0, max_len, <<>>, write_len,
                     SubSeq(data, 1, write_len))
    /\ UNCHANGED host_state
    /\ EngineStep

\* HostFunctions::payload_read.
payload_read(offset, len) ==
    /\ InGuest
    /\ \E overflow_checks \in OverflowChecks :
       LET payload == host_state[1].payload_buffer
           start == as_usize(offset)
           end == usize_min(wrapping_add(start, as_usize(len)),
                            usize_of(Len(payload))).rest
       IN IF usize_le(usize_of(Len(payload)), start)
          THEN HostCallAt("payload_read", offset, len, <<>>, 0, <<>>)
          ELSE IF add_overflows(start, as_usize(len)) /\ overflow_checks
          THEN HostPanics("payload_read", offset, len)
          ELSE IF start.rest > end
          THEN HostPanics("payload_read", offset, len)
          ELSE HostCallAt("payload_read", offset, len, <<>>, end - start.rest,
                          SubSeq(payload, start.rest + 1, end))
    /\ UNCHANGED host_state
    /\ EngineStep

\* A write that drops what the buffer held behind the written bytes.
write_at_truncating(payload, offset, data) ==
    [i \in 1..(offset + Len(data)) |->
        IF i > offset THEN data[i - offset]
        ELSE IF i <= Len(payload) THEN payload[i]
        ELSE "\\0"]

\* payload_write's payload[offset..offset + len] = data after resize(.., 0).
write_at(payload, offset, data) ==
    LET new_len == IF offset + Len(data) <= Len(payload) THEN Len(payload)
                   ELSE offset + Len(data)
    IN [i \in 1..new_len |->
           IF i > offset /\ i <= offset + Len(data) THEN data[i - offset]
           ELSE IF i <= Len(payload) THEN payload[i]
           ELSE "\\0"]

\* HostFunctions::read_bytes_from_memory of len bytes, data being what the
\* guest's memory holds at the pointer when len is not negative.
read_bytes_from_memory(len, data, data_in_memory) ==
    IF exceeds_isize_MAX(as_usize(len)) THEN [code |-> "panic", value |-> None]
    ELSE IF ~data_in_memory THEN ErrResult("Wasm", "out of bounds memory access")
    ELSE OkResult(data)

\* HostFunctions::payload_write.
payload_write(offset, len, data, data_in_memory) ==
    /\ InGuest
    /\ \E overflow_checks \in OverflowChecks :
       LET read == read_bytes_from_memory(len, data, data_in_memory)
           updated == host_state[1].updated_payload
           payload == IF updated = None THEN <<>> ELSE updated[1]
           start == as_usize(offset)
           end == wrapping_add(start, usize_of(Len(data)))
       IN IF read.code = "panic"
          THEN HostPanics("payload_write", offset, len) /\ UNCHANGED host_state
          ELSE IF read.code /= "Ok"
          THEN HostCallAt("payload_write", offset, len, <<>>, -1, <<>>)
               /\ UNCHANGED host_state
          ELSE IF \/ add_overflows(start, usize_of(Len(data))) /\ overflow_checks
                  \/ usize_lt(end, start)
                  \/ usize_lt(usize_of(Len(payload)), end) /\ exceeds_isize_MAX(end)
          THEN HostPanics("payload_write", offset, len) /\ UNCHANGED host_state
          ELSE /\ HostCallAt("payload_write", offset, len, data, Len(data), <<>>)
               /\ host_state' =
                     Some([host_state[1] EXCEPT
                              !.updated_payload =
                                  Some(write_at(payload, start.rest, data))])
    /\ EngineStep

\* The guest computes without calling the host.
guest_computes ==
    /\ runner.pc = "guest"
    /\ runner' = [runner EXCEPT !.spin = ~@]
    /\ UNCHANGED host_state
    /\ EngineStep

\* A runner that commits what the guest wrote although the guest trapped.
guest_traps_committing ==
    /\ runner.pc = "guest"
    /\ execute_returns(ErrResult("Wasm", "wasm trap"), runner.decrypted_payload)
    /\ LET updated == host_state[1].updated_payload
           ino == dir[ArchiveA]
       IN inode' = IF updated = None \/ ino = 0 THEN inode
                   ELSE [inode EXCEPT ![ino].entries =
                            [i \in DOMAIN @ |->
                                IF @[i].name = "payload"
                                THEN Entry("payload", "Stored", updated[1])
                                ELSE @[i]]]
    /\ UNCHANGED <<sessionVars, execVars, dir, zip_deflate, archive, outcome, task, handle,
                   nameVars, restVars, network, host_check>>

\* run.call or main.call returns Err: the guest trapped.
guest_traps ==
    /\ runner.pc = "guest"
    /\ execute_returns(ErrResult("Wasm", "wasm trap"), runner.decrypted_payload)
    /\ EngineStep

\* runner.rs 105-139: the guest's function returns Ok(()).
guest_returns ==
    /\ runner.pc = "guest"
    /\ LET updated == host_state[1].updated_payload IN
       IF runner.entry = "run" /\ updated /= None
       THEN /\ update_payload_call("t1", updated[1])
            /\ IF outcome'["t1"].code = ""
               THEN /\ runner' = [runner EXCEPT
                                     !.pc = "update_payload",
                                     !.decrypted_payload =
                                         IF runner.is_vault THEN updated ELSE @]
                    /\ UNCHANGED host_state
               ELSE execute_returns(ErrResult(outcome'["t1"].code, outcome'["t1"].detail),
                                    IF runner.is_vault THEN updated
                                    ELSE runner.decrypted_payload)
            /\ UNCHANGED <<sessionVars, execVars, zip_deflate, nameVars, restVars, network,
                           host_check>>
       ELSE /\ execute_returns(ExecutionResult(FALSE), runner.decrypted_payload)
            /\ EngineStep

\* runner.rs 118-144: archive.update_payload returned.
execute_ends ==
    /\ runner.pc = "update_payload"
    /\ task["t1"].pc = "idle"
    /\ execute_returns(IF outcome["t1"].code = "Ok" THEN ExecutionResult(TRUE)
                       ELSE ErrResult(outcome["t1"].code, outcome["t1"].detail),
                       runner.decrypted_payload)
    /\ EngineStep

(***************************************************************************)
(* The names a caller gives the store. A name is the sequence of its       *)
(* separators and components: "/d/../c" is <<"/", "d", "/", "..", "/",      *)
(* "c">>. Path::components reads it as the target platform does: "C:" is a *)
(* prefix on Windows and a normal component elsewhere.                     *)
(***************************************************************************)
TargetPlatforms == {"unix", "windows"}

\* The parts of a path between its separators.
RECURSIVE Segments(_)
Segments(path) ==
    LET sep == find(path, "/") IN
    IF sep = 0 THEN <<path>>
    ELSE <<SubSeq(path, 1, sep - 1)>> \o Segments(SubSeq(path, sep + 1, Len(path)))

Component(kind, text) == [kind |-> kind, text |-> text]

\* Path::components without the leading prefix and root.
RECURSIVE NormalComponents(_, _)
NormalComponents(segments, leading) ==
    IF segments = <<>> THEN <<>>
    ELSE LET seg == Head(segments)
             rest == NormalComponents(Tail(segments), FALSE)
         IN IF seg = <<>> THEN rest
            ELSE IF seg = <<".">>
            THEN IF leading THEN <<Component("CurDir", ".")>> \o rest ELSE rest
            ELSE IF seg = <<"..">> THEN <<Component("ParentDir", "..")>> \o rest
            ELSE <<Component("Normal", seg[1])>> \o rest

\* Path::components.
components(path, os) ==
    LET has_prefix == os = "windows" /\ path /= <<>> /\ path[1] = "C:"
        after_prefix == IF has_prefix THEN Tail(path) ELSE path
        has_root == after_prefix /= <<>> /\ after_prefix[1] = "/"
    IN (IF has_prefix THEN <<Component("Prefix", "C:")>> ELSE <<>>)
       \o (IF has_root THEN <<Component("RootDir", "/")>> ELSE <<>>)
       \o NormalComponents(Segments(after_prefix), ~has_prefix /\ ~has_root)

Kinds(comps) == {comps[i].kind : i \in DOMAIN comps}

\* normalize_relative_path without its look at the components.
normalize_relative_path_any_component(path, os) ==
    LET trimmed == trim_start_matches(path, <<"/">>) IN
    IF trimmed = <<>> THEN ErrResult("InvalidName", "")
    ELSE OkResult(components(trimmed, os))

\* sync_store.rs 220-237.
normalize_relative_path(path, os) ==
    LET trimmed == trim_start_matches(path, <<"/">>) IN
    IF trimmed = <<>> THEN ErrResult("InvalidName", "")
    ELSE IF Kinds(components(trimmed, os)) \cap {"ParentDir", "RootDir", "Prefix"} /= {}
    THEN ErrResult("InvalidPath", "")
    ELSE OkResult(components(trimmed, os))

\* The dot-separated parts of a component's text.
name_parts(text) ==
    IF text = "a.txt" THEN <<"a", "txt">>
    ELSE IF text = "a.sync" THEN <<"a", "sync">>
    ELSE <<text>>

\* SyncStore::sync_path_for on a name as the caller gives it: the
\* directories below base_dir and the file name.
sync_path_for_name(name, os) ==
    LET rel == normalize_relative_path(name, os) IN
    IF rel.code /= "Ok" THEN rel
    ELSE LET comps == rel.value[1] IN
         IF Last(comps).kind /= "Normal" THEN ErrResult("InvalidName", "")
         ELSE OkResult([dirs |-> [i \in 1..(Len(comps) - 1) |-> comps[i].text],
                        file |-> ensure_sync_extension(name_parts(Last(comps).text))])

NoPathResult == [fn |-> "", name |-> <<>>, result |-> NoResult]

NamesIdle ==
    /\ target_os = "unix"
    /\ path_result = NoPathResult

\* A caller's step: sync_path_for(name).
resolve_name(name) ==
    /\ task["t1"].pc = "idle"
    /\ path_result' = [fn |-> "sync_path_for", name |-> name,
                       result |-> sync_path_for_name(name, target_os)]
    /\ UNCHANGED <<sessionVars, execVars, fsVars, engineVars, target_os, restVars>>

\* sync_store.rs 61-80: create_sync_from_path(name, ..), for a name that is
\* rejected or that names a file of base_dir itself.
create_sync_from_name(t, name, payload, content_type) ==
    LET sync_path == sync_path_for_name(name, target_os) IN
    /\ task[t].pc = "idle"
    /\ sync_path.code = "Ok" => sync_path.value[1].dirs = <<>>
    /\ path_result' = [fn |-> "create_sync_from_path", name |-> name,
                       result |-> sync_path]
    /\ IF sync_path.code /= "Ok"
       THEN /\ Returns(t, "create_sync_from_path", sync_path)
            /\ UNCHANGED task
       ELSE create_sync_from_path_begin(
                t, name_parts(Last(trim_start_matches(name, <<"/">>))),
                payload, content_type, FALSE)
    /\ UNCHANGED <<dir, inode, archive, handle>>
    /\ UNCHANGED <<sessionVars, execVars, zip_deflate, engineVars, target_os, restVars>>

\* Path::is_absolute: a root on Unix, a prefix and a root on Windows.
is_absolute(path, os) ==
    IF os = "windows" THEN Len(path) >= 2 /\ path[1] = "C:" /\ path[2] = "/"
    ELSE path /= <<>> /\ path[1] = "/"

\* SyncStore::resolve_sync_path (sync_store.rs 152-159): the directories and
\* the file name of the path the store works on; an absolute path is taken
\* as it is, root included, any other is joined to base_dir.
SyncStore_resolve_sync_path(path, os) ==
    LET rel == normalize_relative_path(path, os)
        comps == IF is_absolute(path, os) THEN components(path, os) ELSE rel.value[1]
    IN IF ~is_absolute(path, os) /\ rel.code /= "Ok" THEN rel
       ELSE OkResult([dirs |-> [i \in 1..(Len(comps) - 1) |-> comps[i].text],
                      file |-> name_parts(Last(comps).text)])

\* The file /a.sync, outside the store's base directory.
OutsideArchive == <<"/a", "sync">>

\* The file of the model a resolved path names: a file of base_dir, or
\* /a.sync.
ResolvedFile(resolved) ==
    IF resolved.dirs = <<"/">> /\ resolved.file = <<"a", "sync">> THEN OutsideArchive
    ELSE resolved.file

\* sync_store.rs 99-112: update_payload_from_path(sync_path, ..) from the
\* path as the caller gives it.
update_payload_from_path_of(t, sync_path, payload) ==
    LET resolved == SyncStore_resolve_sync_path(sync_path, target_os) IN
    /\ task[t].pc = "idle"
    /\ resolved.code = "Ok" => /\ resolved.value[1].dirs \in {<<>>, <<"/">>}
                               /\ ResolvedFile(resolved.value[1]) \in DOMAIN dir
    /\ path_result' = [fn |-> "update_payload_from_path", name |-> sync_path,
                       result |-> resolved]
    /\ IF resolved.code /= "Ok"
       THEN /\ Returns(t, "update_payload_from_path", resolved)
            /\ UNCHANGED task
       ELSE update_payload_from_path_begin(t, ResolvedFile(resolved.value[1]), payload, FALSE)
    /\ UNCHANGED <<dir, inode, archive, handle>>
    /\ UNCHANGED <<sessionVars, execVars, zip_deflate, engineVars, target_os, restVars>>

\* sync_store.rs 124-130: remove_sync(sync_path) from the path as the caller
\* gives it.
remove_sync_of(t, sync_path) ==
    LET resolved == SyncStore_resolve_sync_path(sync_path, target_os) IN
    /\ task[t].pc = "idle"
    /\ resolved.code = "Ok" => /\ resolved.value[1].dirs \in {<<>>, <<"/">>}
                               /\ ResolvedFile(resolved.value[1]) \in DOMAIN dir
    /\ path_result' = [fn |-> "remove_sync", name |-> sync_path, result |-> resolved]
    /\ Returns(t, "remove_sync",
               IF resolved.code /= "Ok" THEN resolved ELSE OkResult(<<>>))
    /\ UNCHANGED <<archive, task, handle>>
    /\ FsStep(IF resolved.code = "Ok" /\ dir[ResolvedFile(resolved.value[1])] /= 0
              THEN [dir EXCEPT ![ResolvedFile(resolved.value[1])] = 0]
              ELSE dir,
              inode)
    /\ UNCHANGED <<sessionVars, execVars, zip_deflate, engineVars, target_os, restVars>>

(***************************************************************************)
(* The values of a process that has asked nothing of an archive's vault    *)
(* status, built no request on a thread, listed nothing and serves no      *)
(* archive read-only.                                                      *)
(***************************************************************************)
NoVaultCheck == [fn |-> "", result |-> FALSE, code |-> "", data |-> <<>>]

Threads == {"th1", "th2", "th3"}

NoBuilders ==
    [issued |-> <<>>,
     thread |-> [th \in Threads |-> [pc |-> "idle", request_id |-> None, built |-> <<>>]]]

\* names is what the call returned; created and pending are the caller's
\* record of the store: the paths its completed calls created and did not
\* remove, and the call it made last.
NoPending == [op |-> "", path |-> <<>>]

NoListing ==
    [call |-> "", code |-> "", names |-> {}, created |-> {}, pending |-> NoPending,
     from |-> <<>>, to |-> <<>>]

NoEntry == [display_name |-> <<>>, offset |-> 0, size |-> 0]
NoDavFile == [open |-> FALSE, entry |-> NoEntry, ino |-> 0, position |-> 0]
NoMount ==
    [entries |-> <<>>, archive_path |-> <<>>, file |-> NoDavFile,
     call |-> "", code |-> "", wants_write |-> FALSE,
     count |-> 0, at |-> 0, bytes |-> <<>>]

\* Before any verify_sync_file call: no file, nothing verified.
NoVerification == [file |-> None, verified |-> None, signature |-> None,
                   returned |-> NoResult, calls |-> <<>>]

\* Before any serve_background call.
NoServer == [pc |-> "none", shutdown_tx |-> None, signal |-> "",
             connections |-> <<>>, in_flight |-> {}]

RestIdle ==
    /\ vault_check = NoVaultCheck
    /\ builders = NoBuilders
    /\ listing = NoListing
    /\ mount = NoMount
    /\ verification = NoVerification
    /\ server = NoServer

(***************************************************************************)
(* Vault status and the password-based read and write of sync-format.      *)
(***************************************************************************)
VaultStep(check) ==
    /\ vault_check' = check
    /\ UNCHANGED <<sessionVars, execVars, engineVars, nameVars, builders, listing, mount,
                   verification, server>>

\* A caller holding an archive asks SyncArchive::is_vault.
ask_archive_is_vault(t) ==
    /\ task[t].pc = "idle"
    /\ archive[t] /= None
    /\ VaultStep([fn |-> "SyncArchive::is_vault",
                  result |-> SyncArchive_is_vault(archive[t][1]),
                  code |-> "", data |-> <<>>])
    /\ UNCHANGED fsVars

\* The same caller asks the manifest: archive.manifest().is_vault().
ask_manifest_is_vault(t) ==
    /\ task[t].pc = "idle"
    /\ archive[t] /= None
    /\ VaultStep([fn |-> "SyncManifest::is_vault",
                  result |-> SyncManifest_is_vault(archive[t][1].manifest),
                  code |-> "", data |-> <<>>])
    /\ UNCHANGED fsVars

\* SyncArchive::read_payload_with_password (format.rs 210-217).
read_with_password(t, password) ==
    /\ task[t].pc = "idle"
    /\ archive[t] /= None
    /\ LET r == read_payload_with_password(dir, inode, zip_deflate, archive[t][1], password)
       IN VaultStep([fn |-> "read_payload_with_password",
                     result |-> SyncArchive_is_vault(archive[t][1]),
                     code |-> r.code,
                     data |-> IF r.code = "Ok" THEN r.value[1] ELSE <<>>])
    /\ UNCHANGED fsVars

\* SyncArchive::write_payload_with_password (format.rs 228-239): encrypt for
\* a vault, then update_payload.
write_payload_with_password(t, data, password) ==
    /\ archive[t] /= None
    /\ LET to_write == IF SyncArchive_is_vault(archive[t][1])
                       THEN encrypt_data(data, password)
                       ELSE data
       IN update_payload_call(t, to_write)
    /\ VaultStep([fn |-> "write_payload_with_password",
                  result |-> SyncArchive_is_vault(archive[t][1]),
                  code |-> "", data |-> data])
    /\ UNCHANGED zip_deflate

(***************************************************************************)
(* Request ids on several threads. A thread holds a session or a clone of  *)
(* one; REQUEST_COUNTER is a static, so every session and clone of the     *)
(* process draws from it. fetch_add is one atomic read-modify-write: the   *)
(* thread gets the value it replaced.                                      *)
(***************************************************************************)
\* A thread that reads the counter without adding to it.
fetch_add_load(counter, val) == counter

\* AtomicU64::fetch_add(val, Relaxed): the value the counter holds afterwards.
fetch_add(counter, val) == counter + val

\* build_request on thread th, up to the id next_request_id returns.
next_request_id_on(th) ==
    /\ builders.thread[th].pc = "idle"
    /\ REQUEST_COUNTER <= MaxIds
    /\ LET seq == REQUEST_COUNTER IN
       /\ REQUEST_COUNTER' = fetch_add(REQUEST_COUNTER, 1)
       /\ builders' = [builders EXCEPT !.issued = Append(@, seq),
                                       !.thread[th].pc = "building",
                                       !.thread[th].request_id = Some(seq)]
    /\ UNCHANGED <<sessionVars, children, stdin_writes, response, env, command_env,
                   fsVars, engineVars, nameVars, vault_check, listing, mount, verification, server>>

\* The rest of build_request on thread th: the GuestRequest value is built.
request_built(th) ==
    /\ builders.thread[th].pc = "building"
    /\ builders' = [builders EXCEPT !.thread[th].pc = "idle",
                                    !.thread[th].request_id = None,
                                    !.thread[th].built =
                                        Append(@, builders.thread[th].request_id[1])]
    /\ UNCHANGED <<sessionVars, execVars, fsVars, engineVars, nameVars,
                   vault_check, listing, mount, verification, server>>

(***************************************************************************)
(* SyncStore::remove_sync and list_syncs, and a caller of the store that   *)
(* keeps a record of what it created and removed.                          *)
(***************************************************************************)
\* Path::exists for a path under base_dir.
exists(d, path) == path \in DOMAIN d /\ d[path] /= 0

\* collect_syncs ending at the first .sync file it meets.
collect_syncs_first(d) ==
    LET syncs == {path \in DOMAIN d : d[path] > 0 /\ extension(path) = "sync"}
    IN IF syncs = {} THEN {} ELSE {CHOOSE path \in syncs : TRUE}

\* collect_syncs (sync_store.rs 257-268): every file under the directory
\* whose extension is sync.
collect_syncs(d) ==
    {path \in DOMAIN d : d[path] > 0 /\ extension(path) = "sync"}

\* What the caller knows once its last call has returned.
Recorded ==
    IF task["t1"].pc /= "idle" \/ outcome["t1"].code /= "Ok" THEN listing.created
    ELSE IF listing.pending.op = "create" THEN listing.created \cup {listing.pending.path}
    ELSE IF listing.pending.op = "remove" THEN listing.created \ {listing.pending.path}
    ELSE listing.created

LedgerStep(op, path) ==
    /\ listing' = [NoListing EXCEPT !.created = Recorded,
                                    !.pending = [op |-> op, path |-> path]]
    /\ UNCHANGED <<sessionVars, execVars, zip_deflate, engineVars, nameVars,
                   vault_check, builders, mount, verification, server>>

\* The caller's step: create_sync_from_path(name, ..).
store_create(t, name, payload, content_type) ==
    /\ task[t].pc = "idle"
    /\ create_sync_from_path_begin(t, name, payload, content_type, FALSE)
    /\ UNCHANGED <<dir, inode, archive, handle>>
    /\ LedgerStep("create", sync_path_for(name))

\* The caller's step: update_payload_from_path(sync_path, ..).
store_update(t, sync_path, payload) ==
    /\ task[t].pc = "idle"
    /\ update_payload_from_path_begin(t, sync_path, payload, FALSE)
    /\ UNCHANGED <<dir, inode, archive, handle>>
    /\ LedgerStep("update", sync_path)

\* SyncStore::remove_sync (sync_store.rs 124-130) on a relative path:
\* resolve_sync_path joins it to base_dir as it is.
remove_sync(t, sync_path) ==
    /\ task[t].pc = "idle"
    /\ Returns(t, "remove_sync", OkResult(<<>>))
    /\ UNCHANGED <<archive, task, handle>>
    /\ FsStep(IF exists(dir, sync_path) THEN [dir EXCEPT ![sync_path] = 0] ELSE dir,
              inode)
    /\ LedgerStep("remove", sync_path)

\* SyncStore::list_syncs (sync_store.rs 132-139).
list_syncs(t) ==
    /\ task[t].pc = "idle"
    /\ listing' = [NoListing EXCEPT !.call = "list_syncs", !.code = "Ok",
                                    !.names = collect_syncs(dir),
                                    !.created = Recorded]
    /\ UNCHANGED <<sessionVars, execVars, fsVars, engineVars, nameVars,
                   vault_check, builders, mount, verification, server>>

(***************************************************************************)
(* WritableSyncFs::rename between two files (writable.rs 337-382).         *)
(***************************************************************************)
DavStep(call, r, from, to) ==
    /\ listing' = [NoListing EXCEPT !.call = call, !.code = r.code,
                                    !.from = from, !.to = to]
    /\ UNCHANGED <<sessionVars, execVars, zip_deflate, engineVars, nameVars,
                   vault_check, builders, mount, verification, server>>

\* The entries entries_in_dir pushes: for each archive of the directory
\* that it does not skip, the archive's path and the name shown for it.
dir_entries(d, n, deflate, dir_path) ==
    {[path |-> p,
      display_name |->
          file_name(display_name_for_archive(file_stem(p),
                                             SyncArchive_open(d, n, deflate, p)
                                                 .value[1].manifest.display_ext))] :
        p \in {q \in Paths :
                  /\ d[q] /= 0
                  /\ parent(q) = dir_path
                  /\ ~is_ignored_name(file_name(q))
                  /\ extension(q) = "sync"
                  /\ LET r == SyncArchive_open(d, n, deflate, q) IN
                     /\ r.code = "Ok"
                     /\ r.value[1].payload_offset /= None
                     /\ ~is_ignored_name(
                            display_name_for_archive(file_stem(file_name(q)),
                                                     r.value[1].manifest.display_ext))}}

\* entries_in_dir: the names a listing of the directory shows for the
\* archives in it.
entries_in_dir(d, n, deflate, dir_path) ==
    {e.display_name : e \in dir_entries(d, n, deflate, dir_path)}

\* writable.rs 214-245: read_dir of the base directory or of directory d.
read_dir(t, dir_path) ==
    /\ task[t].pc = "idle"
    /\ Returns(t, "read_dir", OkResult(<<>>))
    /\ listing' = [NoListing EXCEPT
                      !.call = "read_dir", !.code = "Ok",
                      !.names = entries_in_dir(dir, inode, zip_deflate, dir_path)]
    /\ UNCHANGED <<dir, inode, archive, task, handle>>
    /\ UNCHANGED <<sessionVars, execVars, zip_deflate, engineVars, nameVars,
                   vault_check, builders, mount, verification, server>>

\* The source resolves as a read does; the destination is the store's path
\* for its name, removed if it exists; then fs::rename.
WritableSyncFs_rename(t, from, to) ==
    /\ task[t].pc = "idle"
    /\ UNCHANGED <<archive, task, handle>>
    /\ IF is_ignored_name(from) \/ is_ignored_name(to)
       THEN /\ Returns(t, "rename", OkResult(<<>>))
            /\ DavStep("rename", OkResult(<<>>), from, to)
            /\ FsStep(dir, inode)
       ELSE \E from_sync_path \in resolve_sync_path(dir, inode, zip_deflate, from) :
            IF from_sync_path = None
            THEN /\ Returns(t, "rename", ErrResult("NotFound", ""))
                 /\ DavStep("rename", ErrResult("NotFound", ""), from, to)
                 /\ FsStep(dir, inode)
            ELSE LET to_sync_path == sync_path_for(to)
                     removed == IF dir[to_sync_path] /= 0
                                THEN [dir EXCEPT ![to_sync_path] = 0]
                                ELSE dir
                 IN IF removed[from_sync_path[1]] = 0
                    THEN /\ Returns(t, "rename", ErrResult("NotFound", ""))
                         /\ DavStep("rename", ErrResult("NotFound", ""), from, to)
                         /\ FsStep(removed, inode)
                    ELSE /\ Returns(t, "rename", OkResult(<<>>))
                         /\ DavStep("rename", OkResult(<<>>), from, to)
                         /\ FsStep([removed EXCEPT
                                       ![to_sync_path] = removed[from_sync_path[1]],
                                       ![from_sync_path[1]] = 0],
                                   inode)

(***************************************************************************)
(* The read-only file server of one archive: VfsMount::from_archive,       *)
(* SyncDavFs and the SyncDavFile it opens (vfs.rs, filesystem.rs).         *)
(***************************************************************************)
VfsEntry(display_name, offset, size) ==
    [display_name |-> display_name, offset |-> offset, size |-> size]

build_display_name(base_name, display_ext, show_original_extension) ==
    IF ~show_original_extension THEN base_name
    ELSE IF display_ext = "" THEN base_name
    ELSE IF Len(base_name) >= 2 /\ Last(base_name) = display_ext THEN base_name
    ELSE base_name \o <<display_ext>>

\* VfsMount::from_archive with the default configuration: the entries of the
\* mount, or none when the archive has no payload.
from_archive(a) ==
    IF a.payload_offset = None THEN ErrResult("PayloadNotFound", "")
    ELSE OkResult(<<VfsEntry(build_display_name(file_stem(a.path),
                                                 a.manifest.display_ext, TRUE),
                             a.payload_offset[1], a.payload_size[1])>>)

MountStep(m) ==
    /\ mount' = m
    /\ UNCHANGED <<sessionVars, execVars, fsVars, engineVars, nameVars,
                   vault_check, builders, listing, verification, server>>

Called(call, code) ==
    [mount EXCEPT !.call = call, !.code = code, !.wants_write = FALSE,
                  !.count = 0, !.at = 0, !.bytes = <<>>]

\* server.rs 71-73: the caller opens the archive, builds the mount and
\* serves it.
serve(archive_path) ==
    LET r == SyncArchive_open(dir, inode, zip_deflate, archive_path)
        vfs == from_archive(r.value[1])
    IN
    /\ mount.archive_path = <<>>
    /\ r.code = "Ok"
    /\ vfs.code = "Ok"
    /\ MountStep([Called("serve", "Ok") EXCEPT !.entries = vfs.value[1],
                                               !.archive_path = archive_path])

\* filesystem.rs 81-102 with find_entry (58-71).
SyncDavFs_open(name, options) ==
    LET found == {i \in DOMAIN mount.entries : mount.entries[i].display_name = name}
        wants_write ==
            options.write \/ options.create \/ options.create_new \/ options.truncate
        answer(code) == [Called("open", code) EXCEPT !.wants_write = wants_write]
    IN
    /\ mount.archive_path /= <<>>
    /\ ~mount.file.open
    /\ IF wants_write THEN MountStep(answer("Forbidden"))
       ELSE IF found = {} THEN MountStep(answer("NotFound"))
       ELSE IF dir[mount.archive_path] = 0 THEN MountStep(answer("GeneralFailure"))
       ELSE MountStep([answer("Ok") EXCEPT
                          !.file = [open |-> TRUE,
                                    entry |-> mount.entries[Min(found)],
                                    ino |-> dir[mount.archive_path],
                                    position |-> 0]])

\* read_bytes asks for the whole count, past the end of the entry.
to_read_unclamped(entry, position, count) == count

\* filesystem.rs 188-189: the bytes of the entry left at the position, at
\* most count of them.
to_read(entry, position, count) ==
    LET remaining == IF entry.size >= position THEN entry.size - position ELSE 0
    IN IF count <= remaining THEN count ELSE remaining

\* filesystem.rs 186-212.
SyncDavFile_read_bytes(count) ==
    LET f == mount.file
        n == to_read(f.entry, f.position, count)
        abs_offset == f.entry.offset + f.position
        buffer == read_at(FileBytes(inode[f.ino]), abs_offset, n)
    IN
    /\ f.open
    /\ IF n = 0
       THEN MountStep([Called("read_bytes", "Ok") EXCEPT !.count = count])
       ELSE MountStep([Called("read_bytes", "Ok") EXCEPT
                          !.count = count, !.at = abs_offset, !.bytes = buffer,
                          !.file.position = @ + Len(buffer)])

\* std::io::SeekFrom.
SeekFrom(whence, n) == [whence |-> whence, n |-> n]

\* filesystem.rs 214-228.
SyncDavFile_seek(pos) ==
    LET f == mount.file
        new_pos == CASE pos.whence = "Start" -> pos.n
                     [] pos.whence = "End" -> f.entry.size + pos.n
                     [] pos.whence = "Current" -> f.position + pos.n
    IN
    /\ f.open
    /\ new_pos <= MaxPosition
    /\ IF new_pos < 0 THEN MountStep(Called("seek", "GeneralFailure"))
       ELSE MountStep([Called("seek", "Ok") EXCEPT !.file.position = new_pos])

\* filesystem.rs 230-238: write_buf and write_bytes.
SyncDavFile_write(call, buf) ==
    /\ mount.file.open
    /\ MountStep(Called(call, "Forbidden"))

\* filesystem.rs 240-242.
SyncDavFile_flush ==
    /\ mount.file.open
    /\ MountStep(Called("flush", "Ok"))

\* The file is dropped.
SyncDavFile_drop ==
    /\ mount.file.open
    /\ MountStep([Called("drop", "") EXCEPT !.file = NoDavFile])

\* The operations the impl block of SyncDavFs (filesystem.rs 80-157) does not
\* define: open, read_dir and metadata are all it has, so these run the
\* provided methods of the DavFileSystem trait, which answer that the
\* operation is not implemented.
Provided == {"create_dir", "remove_file", "remove_dir", "rename", "copy"}

SyncDavFs_provided(call) ==
    /\ mount.archive_path /= <<>>
    /\ MountStep(Called(call, "NotImplemented"))

(***************************************************************************)
(* Spec: every mutator of the session, from GuestSession::new.             *)
(***************************************************************************)
\* The process has a PATH, and FOO and BAZ set by its caller.
ProcessEnv ==
    [k \in EnvKeys |-> IF k \in {"PATH", "FOO", "BAZ"} THEN Some(<<"value">>) ELSE None]

ExecIdle ==
    /\ REQUEST_COUNTER = 1
    /\ children = 0
    /\ stdin_writes = 0
    /\ response = [action |-> "", code |-> "", message |-> "", request_id |-> None,
                   child |-> NoChild, parsed |-> None, reply |-> None]
    /\ command_env = None

Init ==
    /\ \E mp \in ManifestPermissionsChoices : session = new(mp)
    /\ ExecIdle
    /\ env = ProcessEnv
    /\ EngineIdle
    /\ NamesIdle
    /\ RestIdle
    /\ FsIdle

Next ==
    \/ \E h \in HostApps \cup {""} : set_host_app(h)
    \/ \E h \in HostApps : as_widget(h)
    \/ \E h \in HostApps : as_headless(h)
    \/ as_consumer
    \/ as_owner
    \/ grant_read_payload
    \/ grant_read_context
    \/ grant_write_payload
    \/ grant_context_write
    \/ grant_wasm_execution
    \/ revoke_wasm_execution
    \/ \E f \in PermissionFlags, v \in BOOLEAN : assign_permission_flag(f, v)
    \/ \E h \in HostNames : allow_host(h)
    \/ \E v \in EnvNames : allow_env_var(v)

Spec == Init /\ [][Next]_vars

(***************************************************************************)
(* SpecExec: the mutators that decide a request's fate, and                *)
(* execute_request. The allowlists stay as `new` leaves them.              *)
(***************************************************************************)
InitExec ==
    /\ session = new(TestManifestPermissions)
    /\ ExecIdle
    /\ env = ProcessEnv
    /\ EngineIdle
    /\ NamesIdle
    /\ RestIdle
    /\ FsIdle

NextExec ==
    \/ \E h \in HostApps \cup {""} : set_host_app(h)
    \/ \E h \in HostApps : as_widget(h)
    \/ \E h \in HostApps : as_headless(h)
    \/ as_consumer
    \/ as_owner
    \/ grant_read_payload
    \/ grant_read_context
    \/ grant_write_payload
    \/ grant_context_write
    \/ grant_wasm_execution
    \/ revoke_wasm_execution
    \/ \E f \in PermissionFlags, v \in BOOLEAN : assign_permission_flag(f, v)
    \/ \E b \in WidgetBoundsChoices : set_widget_bounds(b)
    \/ \E a \in GuestActions, c \in ChildOutcomes : execute_request(a, c)

SpecExec == InitExec /\ [][NextExec]_vars

(***************************************************************************)
(* SpecEnv: the mutators that decide what a child's environment holds, and *)
(* execute_request, in a process whose environment is any of               *)
(* ProcessEnvChoices.                                                      *)
(***************************************************************************)
\* Names the session's caller allows: one the manifest declares, one it does
\* not, a baseline name and a key apply_env_policy sets itself.
EnvPolicyNames == {"FOO", "BAZ", "HOME", "ALLOW_ENV"}

EnvManifestChoices ==
    { TestManifestPermissions,
      [allow_hosts |-> <<"evil.com">>, allow_env |-> <<"ALLOW_ENV", "FOO">>] }

\* The environment of the process: every name set, or the names of
\* ProcessEnv only.
ProcessEnvChoices ==
    { [k \in EnvKeys |-> Some(<<"value">>)], ProcessEnv }

InitEnv ==
    /\ \E mp \in EnvManifestChoices : session = new(mp)
    /\ ExecIdle
    /\ env \in ProcessEnvChoices
    /\ EngineIdle
    /\ NamesIdle
    /\ RestIdle
    /\ FsIdle

\* The caller sets the session up and then makes its requests.
SettingUp == REQUEST_COUNTER = 1

NextEnv ==
    \/ SettingUp /\ \E h \in HostApps : as_widget(h)
    \/ SettingUp /\ \E h \in HostApps : as_headless(h)
    \/ SettingUp /\ \E h \in HostNames : allow_host(h)
    \/ SettingUp /\ \E v \in EnvPolicyNames : allow_env_var(v)
    \/ SettingUp /\ set_cpu_limit_ms(5)
    \/ SettingUp /\ set_memory_limit_mb(64)
    \/ SettingUp /\ \E b \in WidgetBoundsChoices : set_widget_bounds(b)
    \/ \E a \in {"ReadPayload", "WritePayload"}, c \in ChildOutcomes :
          execute_request(a, c)

SpecEnv == InitEnv /\ [][NextEnv]_vars

(***************************************************************************)
(* SpecOpen: SyncArchive::open on a path that holds any envelope a zip     *)
(* writer can produce from the entry names below, or holds nothing.        *)
(***************************************************************************)
ManifestTexts == {ManifestToml("text/plain", "txt"), <<"not", "toml">>}
PayloadChoices == {<<>>, <<"h", "i">>}

EntryChoices ==
    {Entry("manifest.toml", c, m) : c \in CompressionMethods, m \in ManifestTexts}
    \cup {Entry("payload", c, b) : c \in CompressionMethods, b \in PayloadChoices}
    \cup {Entry("sync.wasm", c, <<"\\0asm">>) : c \in CompressionMethods}
    \cup {Entry("context.json", "Stored", <<"{}">>)}

EntryNames == {e.name : e \in EntryChoices}

\* A zip writer refuses a second entry of the same name.
Envelopes ==
    {s \in UNION {[1..k -> EntryChoices] : k \in 0..Cardinality(EntryNames)} :
        \A i, j \in DOMAIN s : s[i].name = s[j].name => i = j}

InitOpen ==
    /\ session = new(TestManifestPermissions)
    /\ ExecIdle
    /\ env = ProcessEnv
    /\ EngineIdle
    /\ NamesIdle
    /\ RestIdle
    /\ zip_deflate \in BOOLEAN
    /\ NoTasks
    /\ \/ /\ dir = [p \in Paths |-> 0]
          /\ inode = [i \in InodeIds |-> FreeFile]
       \/ /\ dir = [p \in Paths |-> IF p = ArchiveA THEN 1 ELSE 0]
          /\ \E s \in Envelopes :
                inode = [i \in InodeIds |->
                            IF i = 1 THEN [entries |-> s, finished |-> TRUE]
                            ELSE FreeFile]

NextOpen == OpenArchive("t1", ArchiveA)

SpecOpen == InitOpen /\ [][NextOpen]_vars

(***************************************************************************)
(* SpecArchive: one caller. It opens the archive, updates its payload and  *)
(* calls the store; any file-system call of a write may fail, and the      *)
(* process may be killed inside any call.                                  *)
(***************************************************************************)
BuiltArchive(content_type, display_ext, payload) ==
    [entries |-> <<Entry("manifest.toml", "Stored", ManifestToml(content_type, display_ext)),
                   Entry("payload", "Stored", payload),
                   Entry("sync.wasm", "Stored", minimal_wasm)>>,
     finished |-> TRUE]

\* An archive with a context entry and a compressed module, as another
\* writer of the format may produce it.
ForeignArchive ==
    [entries |-> <<Entry("sync.wasm", "Deflated", minimal_wasm),
                   Entry("payload", "Stored", <<"h", "i">>),
                   Entry("context.json", "Stored", <<"{}">>),
                   Entry("manifest.toml", "Stored", ManifestToml("text/plain", "txt"))>>,
     finished |-> TRUE]

InitialArchives == {BuiltArchive("text/plain", "txt", <<"h", "i">>), ForeignArchive}

UpdatePayloads == {<<>>, <<"n", "e", "w">>}
WriteChunks == {<<"x">>, <<"y", "z">>}
\* The client's k-th write on a handle.
Chunk(k) == IF k % 2 = 1 THEN <<"x">> ELSE <<"y", "z">>
ReadCounts == {2, 3}

\* The store holds one archive, a.sync.
InitWith(archives) ==
    /\ session = new(TestManifestPermissions)
    /\ ExecIdle
    /\ env = ProcessEnv
    /\ EngineIdle
    /\ NamesIdle
    /\ RestIdle
    /\ zip_deflate \in BOOLEAN
    /\ NoTasks
    /\ dir = [p \in Paths |-> IF p = ArchiveA THEN 1 ELSE 0]
    /\ \E a \in archives :
          inode = [i \in InodeIds |-> IF i = 1 THEN a ELSE FreeFile]

InitArchive == InitWith(InitialArchives)

NextArchive ==
    \/ OpenArchive("t1", ArchiveA)
    \/ \E b \in UpdatePayloads : update_payload("t1", b)
    \/ \E b \in UpdatePayloads : update_payload_from_path("t1", ArchiveA, b)
    \/ \E b \in UpdatePayloads :
          create_sync_from_path("t1", <<"b", "TXT">>, b, "text/plain")
    \/ create_temp_file("t1")
    \/ tempfile_in("t1")
    \/ copy_entry("t1")
    \/ write_payload("t1")
    \/ write_new_manifest("t1")
    \/ write_new_payload("t1")
    \/ write_new_wasm("t1")
    \/ finish("t1")
    \/ rename("t1")
    \/ reopen("t1")
    \/ io_error("t1")
    \/ crash("t1")

SpecArchive == InitArchive /\ [][NextArchive]_vars

(***************************************************************************)
(* SpecDav: one client of the writable file server. It opens handles for   *)
(* read and for write, writes, flushes, reads and drops them; a flush runs *)
(* the store's steps, any of which may fail.                               *)
(***************************************************************************)
\* The client opens any name, but names at most one archive that a flush
\* has yet to create.
OtherArchives(name) == {p \in ArchivePaths \ {ArchiveA, sync_path_for(name)} : dir[p] /= 0}

InitDav == InitWith(InitialArchives)

NextDav ==
    \/ \E name \in DavNames, options \in OpenOptionsChoices :
          OtherArchives(name) = {} /\ open("t1", name, options)
    \/ entry_from_path("t1")
    \/ file_open("t1")
    \/ \E count \in ReadCounts : read_bytes("t1", count)
    \/ \E buf \in WriteChunks :
          buf = Chunk(handle["t1"].writes + 1) /\ write_bytes("t1", buf)
    \/ flush("t1")
    \/ drop("t1")
    \/ tempfile_in("t1")
    \/ copy_entry("t1")
    \/ write_payload("t1")
    \/ write_new_manifest("t1")
    \/ write_new_payload("t1")
    \/ write_new_wasm("t1")
    \/ finish("t1")
    \/ rename("t1")
    \/ io_error("t1")

SpecDav == InitDav /\ [][NextDav]_vars

(***************************************************************************)
(* SpecStore: two concurrent callers on the archive a.sync. Each calls     *)
(* update_payload_from_path once, or lives one file-server handle on       *)
(* a.txt, for write or for read; their steps interleave freely.            *)
(***************************************************************************)
\* The payload a task passes to the store.
StorePayload(t) == IF t = "t1" THEN <<"o", "n", "e">> ELSE <<"t", "w">>

StoreOptions ==
    {NoOptions, OpenOptions(TRUE, TRUE, FALSE, TRUE, FALSE)}

\* The store holds an archive that opens in this build.
InitStore ==
    /\ InitWith(InitialArchives)
    /\ SyncArchive_open(dir, inode, zip_deflate, ArchiveA).code = "Ok"

NextStore ==
    \/ \E t \in Tasks :
          outcome[t] = NoOutcome /\ update_payload_from_path(t, ArchiveA, StorePayload(t))
    \/ \E t \in Tasks, options \in StoreOptions :
          outcome[t] = NoOutcome /\ open(t, <<"a", "txt">>, options)
    \/ \E t \in Tasks : entry_from_path(t)
    \/ \E t \in Tasks : file_open(t)
    \/ \E t \in Tasks, count \in ReadCounts : read_bytes(t, count)
    \/ \E t \in Tasks, buf \in WriteChunks :
          buf = Chunk(handle[t].writes + 1) /\ write_bytes(t, buf)
    \/ \E t \in Tasks : flush(t)
    \/ \E t \in Tasks : drop(t)
    \/ \E t \in Tasks : tempfile_in(t)
    \/ \E t \in Tasks : copy_entry(t)
    \/ \E t \in Tasks : write_payload(t)
    \/ \E t \in Tasks : finish(t)
    \/ \E t \in Tasks : rename(t)

SpecStore == InitStore /\ [][NextStore]_vars

(***************************************************************************)
(* SpecRun: one runner. Its caller opens a.sync and executes the module;    *)
(* the guest calls host functions, computes, returns or traps; a            *)
(* file-system call of the update may fail.                                *)
(***************************************************************************)
RunArchive(variant, hosts, payload) ==
    [entries |-> <<Entry("manifest.toml", "Stored",
                         ManifestTomlWith("text/plain", "txt", variant, hosts)),
                   Entry("payload", "Stored", payload),
                   Entry("sync.wasm", "Stored", minimal_wasm)>>,
     finished |-> TRUE]

\* The passphrase the model's vault is encrypted with.
Passphrase == "passphrase"

RunArchives ==
    {RunArchive("plain", "api", <<"h", "i">>),
     RunArchive("plain", "wild,evil", <<"h", "i">>),
     RunArchive("plain", "", <<"h", "i">>),
     RunArchive("vault", "", encrypt_data(<<"h", "i">>, Passphrase))}

\* URLs a guest asks for.
Https(host) == <<"https", "://">> \o host \o <<"/", "v1">>

GuestUrls ==
    {Https(ApiExampleCom),
     Https(OtherExampleCom),
     <<"http", "://">> \o ApiExampleCom \o <<":", "8080">>,
     <<"https", "://">> \o ApiExampleCom \o <<":", "x", "@">> \o EvilCom \o <<"/">>,
     ApiExampleCom}

GuestWrites == {<<"n">>, <<"e", "w">>}

InitRun ==
    /\ session = new(TestManifestPermissions)
    /\ ExecIdle
    /\ env = ProcessEnv
    /\ EngineIdle
    /\ NamesIdle
    /\ RestIdle
    /\ zip_deflate = TRUE
    /\ NoTasks
    /\ dir = [p \in Paths |-> IF p = ArchiveA THEN 1 ELSE 0]
    /\ \E a \in RunArchives :
          inode = [i \in InodeIds |-> IF i = 1 THEN a ELSE FreeFile]

NextRun ==
    \/ runner.pc = "idle" /\ OpenArchive("t1", ArchiveA)
    \/ with_password(Passphrase)
    \/ \E entry_point \in EntryPoints : execute(entry_point)
    \/ \E url \in GuestUrls, sent \in SendOutcomes : http_request(url, TRUE, sent)
    \/ http_request(Https(ApiExampleCom), FALSE, "text")
    \/ last_response_read(1)
    \/ payload_read(1, 2)
    \/ \E offset \in {0, 1}, data \in GuestWrites, data_in_memory \in BOOLEAN :
          payload_write(offset, Len(data), data, data_in_memory)
    \/ guest_computes
    \/ guest_traps
    \/ guest_returns
    \/ create_temp_file("t1")
    \/ copy_entry("t1")
    \/ write_payload("t1")
    \/ finish("t1")
    \/ rename("t1")
    \/ reopen("t1")
    \/ io_error("t1")
    \/ execute_ends

SpecRun == InitRun /\ [][NextRun]_vars

\* The same under the scheduling of a running process: the thread inside
\* execute keeps taking steps, and a call that can return does return.
SpecRunLive == InitRun /\ [][NextRun]_vars /\ WF_vars(NextRun)

(***************************************************************************)
(* SpecHosts: the two allowlist checks, asked about every host of          *)
(* HostChoices under every allowlist a manifest of the model holds.        *)
(***************************************************************************)
HostChoices ==
    {ApiExampleCom, XapiExampleCom, OtherExampleCom, ExampleCom, NotExampleCom, EvilCom}

\* A URL of the host, with and without a port.
UrlsOf(host) == {Https(host), <<"http", "://">> \o host \o <<":", "8080">>}

InitHosts ==
    /\ session = new(TestManifestPermissions)
    /\ ExecIdle
    /\ env = ProcessEnv
    /\ EngineIdle
    /\ NamesIdle
    /\ RestIdle
    /\ FsIdle

NextHosts ==
    \/ \E text \in AllowHostsTexts, host \in HostChoices :
          \E url \in UrlsOf(host) : ask_host_state(allow_hosts_of(text), url)
    \/ \E text \in AllowHostsTexts, host \in HostChoices :
          ask_manifest(allow_hosts_of(text), host)

SpecHosts == InitHosts /\ [][NextHosts]_vars

(***************************************************************************)
(* SpecNames: a caller of the store, built for either platform, resolves   *)
(* and creates archives under the names of NameChoices.                    *)
(***************************************************************************)
NameChoices ==
    {<<>>, <<"/">>, <<"/", "/">>,
     <<"c">>, <<"a.txt">>, <<"a.sync">>, <<"/", "a.txt">>, <<"/", "/", "c">>,
     <<"d", "/", "a.txt">>, <<"/", "d", "/", "c">>, <<"d", "/", "/", "c">>, <<"c", "/">>,
     <<"..">>, <<"..", "/", "c">>, <<"d", "/", "..", "/", "c">>, <<"/", "..", "/", "c">>,
     <<".">>, <<".", "/", "c">>, <<"d", "/", ".", "/", "c">>,
     <<"C:", "/", "c">>, <<"/", "C:", "/", "c">>, <<"C:">>}

\* The names create_sync_from_path is called with.
CreateNames ==
    {<<>>, <<"/">>, <<"c">>, <<"/", "a.txt">>, <<"..", "/", "c">>, <<"/", "..", "/", "c">>,
     <<".">>, <<"C:", "/", "c">>}

InitNames ==
    /\ session = new(TestManifestPermissions)
    /\ ExecIdle
    /\ env = ProcessEnv
    /\ EngineIdle
    /\ target_os \in TargetPlatforms
    /\ path_result = NoPathResult
    /\ RestIdle
    /\ FsIdle

NextNames ==
    \/ \E name \in NameChoices : resolve_name(name)
    \/ \E name \in CreateNames :
          create_sync_from_name("t1", name, <<"h", "i">>, "text/plain")
    \/ tempfile_in("t1")
    \/ write_new_manifest("t1")
    \/ write_new_payload("t1")
    \/ write_new_wasm("t1")
    \/ finish("t1")
    \/ rename("t1")
    \/ io_error("t1")

SpecNames == InitNames /\ [][NextNames]_vars

(***************************************************************************)
(* SpecVault: one caller of an archive whose manifest sets any variant,    *)
(* with or without an enabled [encryption] table, and whose payload is     *)
(* stored in the clear or encrypted with the passphrase.                   *)
(***************************************************************************)
VaultArchive(variant, enabled, payload) ==
    [entries |-> <<Entry("manifest.toml", "Stored",
                         ManifestTomlEncryption("text/plain", "txt", variant, "", enabled)),
                   Entry("payload", "Stored", payload),
                   Entry("sync.wasm", "Stored", minimal_wasm)>>,
     finished |-> TRUE]

VaultArchives ==
    {VaultArchive(variant, enabled, payload) :
        variant \in SyncVariants, enabled \in {"true", "false"},
        payload \in {<<"h", "i">>, encrypt_data(<<"h", "i">>, Passphrase)}}

InitVault ==
    /\ session = new(TestManifestPermissions)
    /\ ExecIdle
    /\ env = ProcessEnv
    /\ EngineIdle
    /\ NamesIdle
    /\ RestIdle
    /\ zip_deflate = TRUE
    /\ NoTasks
    /\ dir = [p \in Paths |-> IF p = ArchiveA THEN 1 ELSE 0]
    /\ \E file \in VaultArchives :
          inode = [i \in InodeIds |-> IF i = 1 THEN file ELSE FreeFile]

NextVault ==
    \/ archive["t1"] = None /\ OpenArchive("t1", ArchiveA)
    \/ ask_archive_is_vault("t1")
    \/ ask_manifest_is_vault("t1")
    \/ read_with_password("t1", Passphrase)
    \/ outcome["t1"].call /= "update_payload"
          /\ write_payload_with_password("t1", <<"n">>, Passphrase)
    \/ create_temp_file("t1")
    \/ copy_entry("t1")
    \/ write_payload("t1")
    \/ finish("t1")
    \/ rename("t1")
    \/ reopen("t1")

SpecVault == InitVault /\ [][NextVault]_vars

(***************************************************************************)
(* SpecIds: three threads build requests, in any interleaving.             *)
(***************************************************************************)
InitIds ==
    /\ session = new(TestManifestPermissions)
    /\ ExecIdle
    /\ env = ProcessEnv
    /\ EngineIdle
    /\ NamesIdle
    /\ RestIdle
    /\ FsIdle

NextIds ==
    \/ \E th \in Threads : next_request_id_on(th)
    \/ \E th \in Threads : request_built(th)

SpecIds == InitIds /\ [][NextIds]_vars

(***************************************************************************)
(* SpecReply: execute_request with a child that writes anything to its     *)
(* two streams and exits with any status.                                  *)
(***************************************************************************)
GuestFailure == Some(GuestError("ExecutionFailed", "guest"))

ReplyScripts ==
    {Silent,
     Script("text", "", "echo", FALSE, None),
     Script("json_other", "", "echo", FALSE, None)}
    \cup {Script("response", version, id, ok, error) :
             version \in {GUEST_PROTOCOL_VERSION, "guest.v0"}, id \in {"echo", "other"},
             ok \in BOOLEAN, error \in {None, GuestFailure}}

\* What the child writes to the error stream: nothing, a log line, or a
\* response.
StderrScripts ==
    {Silent,
     Script("text", "", "echo", FALSE, None),
     Script("response", GUEST_PROTOCOL_VERSION, "other", TRUE, None),
     Script("response", "guest.v0", "echo", TRUE, None)}
    \cup {Script("response", GUEST_PROTOCOL_VERSION, "echo", ok, error) :
             ok \in BOOLEAN, error \in {None, GuestFailure}}

ChildReplies ==
    {Child("spawn_fails", Silent, Silent, FALSE),
     Child("stdin_fails", Silent, Silent, FALSE),
     Child("wait_fails", Silent, Silent, FALSE)}
    \cup {Child("replies", stdout, stderr, success) :
             stdout \in ReplyScripts, stderr \in StderrScripts, success \in BOOLEAN}

InitReply ==
    /\ session = new(TestManifestPermissions)
    /\ ExecIdle
    /\ env = ProcessEnv
    /\ EngineIdle
    /\ NamesIdle
    /\ RestIdle
    /\ FsIdle

NextReply ==
    \/ \E h \in HostApps : SettingUp /\ as_headless(h)
    \/ \E c \in ChildReplies : execute_request("ReadPayload", c)
    \/ \E c \in ChildOutcomes : execute_request("WritePayload", c)

SpecReply == InitReply /\ [][NextReply]_vars

(***************************************************************************)
(* SpecSyncs: one caller creates, updates, removes and lists the archives  *)
(* of a store that starts empty.                                           *)
(***************************************************************************)
SyncNames == {<<"a", "txt">>, <<"c">>}
SyncPaths == {sync_path_for(name) : name \in SyncNames} \cup {<<"a", "txt">>}

InitSyncs ==
    /\ session = new(TestManifestPermissions)
    /\ ExecIdle
    /\ env = ProcessEnv
    /\ EngineIdle
    /\ NamesIdle
    /\ RestIdle
    /\ FsIdle

NextSyncs ==
    \/ \E name \in SyncNames, payload \in UpdatePayloads :
          store_create("t1", name, payload, "text/plain")
    \/ \E sync_path \in SyncPaths :
          exists(dir, sync_path) /\ store_update("t1", sync_path, <<"h", "i">>)
    \/ \E sync_path \in SyncPaths : remove_sync("t1", sync_path)
    \/ list_syncs("t1")
    \/ tempfile_in("t1")
    \/ copy_entry("t1")
    \/ write_payload("t1")
    \/ write_new_manifest("t1")
    \/ write_new_payload("t1")
    \/ write_new_wasm("t1")
    \/ finish("t1")
    \/ rename("t1")

SpecSyncs == InitSyncs /\ [][NextSyncs]_vars

(***************************************************************************)
(* SpecIgnored: one client of the writable file server opens, writes,      *)
(* flushes and lists under the names a desktop's own bookkeeping uses, in  *)
(* the base directory and in a directory d it has made there.              *)
(***************************************************************************)
Dirs == {"", "d/"}

InitIgnored == InitWith({BuiltArchive("text/plain", "txt", <<"h", "i">>)})

NextIgnored ==
    \/ \E name \in IgnoredNames, options \in OpenOptionsChoices :
          open("t1", name, options)
    \/ entry_from_path("t1")
    \/ file_open("t1")
    \/ \E count \in ReadCounts : read_bytes("t1", count)
    \/ \E buf \in WriteChunks :
          buf = Chunk(handle["t1"].writes + 1) /\ write_bytes("t1", buf)
    \/ flush("t1")
    \/ drop("t1")
    \/ \E dir_path \in Dirs : read_dir("t1", dir_path)
    \/ tempfile_in("t1")
    \/ copy_entry("t1")
    \/ write_payload("t1")
    \/ write_new_manifest("t1")
    \/ write_new_payload("t1")
    \/ write_new_wasm("t1")
    \/ finish("t1")
    \/ rename("t1")

SpecIgnored == InitIgnored /\ [][NextIgnored]_vars

(***************************************************************************)
(* SpecMount: one archive is served read-only and a client opens its file, *)
(* seeks and reads in it, and sends every write-shaped request.            *)
(***************************************************************************)
MountedArchives ==
    InitialArchives
    \cup {BuiltArchive("text/plain", "txt", <<"p1", "p2", "p3", "p4">>),
          BuiltArchive("text/plain", "", <<>>)}

MountNames == {<<"a", "txt">>, <<"a">>, <<"payload">>}
SeekPositions ==
    {SeekFrom("Start", n) : n \in {0, 1, 3, 5}}
    \cup {SeekFrom("End", n) : n \in {-5, -1, 0, 1}}
    \cup {SeekFrom("Current", n) : n \in {-2, 1}}
MountReadCounts == {0, 1, 2, 5}

InitMount == InitWith(MountedArchives)

NextMount ==
    \/ serve(ArchiveA)
    \/ \E name \in MountNames, options \in OpenOptionsChoices :
          SyncDavFs_open(name, options)
    \/ \E count \in MountReadCounts : SyncDavFile_read_bytes(count)
    \/ \E pos \in SeekPositions : SyncDavFile_seek(pos)
    \/ \E call \in {"write_buf", "write_bytes"} : SyncDavFile_write(call, <<"x">>)
    \/ SyncDavFile_flush
    \/ SyncDavFile_drop
    \/ \E call \in Provided : SyncDavFs_provided(call)

SpecMount == InitMount /\ [][NextMount]_vars

(***************************************************************************)
(* SpecRename: one client renames the files of a store that holds the      *)
(* archive a.sync, shown as a.txt, and an archive the store created for    *)
(* the name b.TXT.                                                         *)
(***************************************************************************)
RenameNames == DavNames \cup {<<"a">>}

InitRename ==
    /\ session = new(TestManifestPermissions)
    /\ ExecIdle
    /\ env = ProcessEnv
    /\ EngineIdle
    /\ NamesIdle
    /\ RestIdle
    /\ zip_deflate = TRUE
    /\ NoTasks
    /\ dir = [p \in Paths |-> IF p = ArchiveA THEN 1
                              ELSE IF p = <<"b", "TXT", "sync">> THEN 2 ELSE 0]
    /\ inode = [i \in InodeIds |->
                   IF i = 1 THEN BuiltArchive("text/plain", "txt", <<"h", "i">>)
                   ELSE IF i = 2 THEN BuiltArchive("text/plain", "TXT", <<"n", "e", "w">>)
                   ELSE FreeFile]

NextRename ==
    \E from \in RenameNames, to \in RenameNames : WritableSyncFs_rename("t1", from, to)

SpecRename == InitRename /\ [][NextRename]_vars

(***************************************************************************)
(* SpecRace: two callers each open a.sync and call update_payload on the   *)
(* value they hold, once, with their own payload; their steps interleave   *)
(* freely.                                                                 *)
(***************************************************************************)
InitRace == InitWith({BuiltArchive("text/plain", "txt", <<"h", "i">>)})

NextRace ==
    \/ \E t \in Tasks : outcome[t] = NoOutcome /\ OpenArchive(t, ArchiveA)
    \/ \E t \in Tasks :
          outcome[t].call = "open_archive" /\ update_payload(t, StorePayload(t))
    \/ \E t \in Tasks : create_temp_file(t)
    \/ \E t \in Tasks : copy_entry(t)
    \/ \E t \in Tasks : write_payload(t)
    \/ \E t \in Tasks : finish(t)
    \/ \E t \in Tasks : rename(t)
    \/ \E t \in Tasks : reopen(t)

SpecRace == InitRace /\ [][NextRace]_vars

(***************************************************************************)
(* SpecListing: one caller creates and updates archives through the store  *)
(* while a second lists the store and the file server's base directory.    *)
(***************************************************************************)
InitListing == InitWith({BuiltArchive("text/plain", "txt", <<"h", "i">>)})

NextListing ==
    \/ \E payload \in UpdatePayloads :
          store_create("t1", <<"c">>, payload, "text/plain")
    \/ \E payload \in UpdatePayloads : store_update("t1", ArchiveA, payload)
    \/ list_syncs("t2")
    \/ read_dir("t2", "")
    \/ tempfile_in("t1")
    \/ copy_entry("t1")
    \/ write_payload("t1")
    \/ write_new_manifest("t1")
    \/ write_new_payload("t1")
    \/ write_new_wasm("t1")
    \/ finish("t1")
    \/ rename("t1")

SpecListing == InitListing /\ [][NextListing]_vars

(***************************************************************************)
(* SpecRoot: a caller of the store, built for either platform, creates,    *)
(* updates and removes archives under relative names, names with a leading *)
(* slash and absolute paths, while /a.sync lies outside the base directory *)
(***************************************************************************)
RootPaths ==
    {<<"a.sync">>, <<"/", "a.sync">>, <<"/", "/", "a.sync">>, <<"c">>,
     <<"..", "/", "a.sync">>, <<"C:", "/", "a.sync">>, <<>>}

InitRoot ==
    /\ session = new(TestManifestPermissions)
    /\ ExecIdle
    /\ env = ProcessEnv
    /\ EngineIdle
    /\ target_os \in TargetPlatforms
    /\ path_result = NoPathResult
    /\ RestIdle
    /\ zip_deflate = TRUE
    /\ NoTasks
    /\ dir = [p \in Paths |-> IF p = ArchiveA THEN 1
                              ELSE IF p = OutsideArchive THEN 2 ELSE 0]
    /\ inode = [i \in InodeIds |->
                   IF i = 1 THEN BuiltArchive("text/plain", "txt", <<"h", "i">>)
                   ELSE IF i = 2 THEN BuiltArchive("text/plain", "txt", <<"o", "u", "t">>)
                   ELSE FreeFile]

NextRoot ==
    \/ \E name \in {<<"c">>, <<"/", "a.sync">>, <<"..", "/", "c">>} :
          create_sync_from_name("t1", name, <<"n", "e", "w">>, "text/plain")
    \/ \E sync_path \in RootPaths :
          update_payload_from_path_of("t1", sync_path, <<"n", "e", "w">>)
    \/ \E sync_path \in RootPaths : remove_sync_of("t1", sync_path)
    \/ tempfile_in("t1")
    \/ copy_entry("t1")
    \/ write_payload("t1")
    \/ write_new_manifest("t1")
    \/ write_new_payload("t1")
    \/ write_new_wasm("t1")
    \/ finish("t1")
    \/ rename("t1")

SpecRoot == InitRoot /\ [][NextRoot]_vars

(***************************************************************************)
(* SpecCasts: the guest of one execution calls payload_read, payload_write *)
(* and last_response_read with offsets and lengths that are negative as    *)
(* i32 values, next to calls with values that are not.                     *)
(***************************************************************************)
GuestOffsets == {-1, 0, 1}
GuestLens == {-2, -1, 1, 2}

InitCasts ==
    /\ session = new(TestManifestPermissions)
    /\ ExecIdle
    /\ env = ProcessEnv
    /\ EngineIdle
    /\ NamesIdle
    /\ RestIdle
    /\ zip_deflate = TRUE
    /\ NoTasks
    /\ dir = [p \in Paths |-> IF p = ArchiveA THEN 1 ELSE 0]
    /\ inode = [i \in InodeIds |->
                   IF i = 1 THEN RunArchive("plain", "api", <<"h", "i">>) ELSE FreeFile]

NextCasts ==
    \/ runner.pc = "idle" /\ runner.result = NoResult /\ OpenArchive("t1", ArchiveA)
    \/ runner.result = NoResult /\ execute("run")
    \/ http_request(Https(ApiExampleCom), TRUE, "text")
    \/ \E max_len \in GuestLens : last_response_read(max_len)
    \/ \E offset \in GuestOffsets, len \in GuestLens : payload_read(offset, len)
    \/ \E offset \in GuestOffsets, len \in GuestLens, data_in_memory \in BOOLEAN :
          payload_write(offset, len,
                        IF len = 1 THEN <<"n">> ELSE IF len = 2 THEN <<"e", "w">> ELSE <<>>,
                        data_in_memory)

SpecCasts == InitCasts /\ [][NextCasts]_vars

(***************************************************************************)
(* Detached signatures: verify_sync_file and extract_public_key of         *)
(* sync-format. The cryptography is symbolic: a digest names the bytes it  *)
(* was computed from, an encoding names the bytes it encodes, and a        *)
(* signature names the key that signed and the message it signed.          *)
(***************************************************************************)
\* blake3::hash(bytes): the 32-byte digest, different for different bytes.
blake3_hash(bytes) == [blake3 |-> bytes]

hex_encode(bytes) == [hex |-> bytes]

\* format!("blake3:{}", hex::encode(hash.as_bytes()))
format_hash(hash) == <<"blake3:", hex_encode(hash)>>

bs58_encode(bytes) == [base58 |-> bytes]
base64_encode(bytes) == [base64 |-> bytes]

\* bs58::decode and the base64 engine's decode: the bytes, or nothing for
\* text that is not of the alphabet.
bs58_decode(text) == IF "base58" \in DOMAIN text THEN Some(text.base58) ELSE None
base64_decode(text) == IF "base64" \in DOMAIN text THEN Some(text.base64) ELSE None

NotOfTheAlphabet == [text |-> "0OIl+/"]

\* The 32 bytes of a signing key's verifying key.
verifying_key_bytes(key) == [i \in 1..32 |-> key]

\* VerifyingKey::from_bytes: the key whose bytes these are, or nothing for
\* 32 bytes that are no point of the curve.
SigningKeys == {"k1", "k2"}
VerifyingKey_from_bytes(bytes) ==
    IF \E key \in SigningKeys : bytes = verifying_key_bytes(key)
    THEN Some(bytes[1]) ELSE None

\* signing_key.sign(message).to_bytes(): 64 bytes.
sign(key, message) == [signer |-> key, message |-> message, len |-> 64]

\* verifying_key.verify(message, signature)
verify(key, message, signature) ==
    signature.signer = key /\ signature.message = message

Multicodec == <<237, 1>>

\* A signer's did:key.
did_key(bytes) == <<"did:key:z", bs58_encode(bytes)>>

\* extract_public_key.
extract_public_key(did) ==
    LET decoded == bs58_decode(did[2]) IN
    IF did[1] /= "did:key:z"
    THEN ErrResult("InvalidDid", "DID must start with 'did:key:z'")
    ELSE IF decoded = None THEN ErrResult("InvalidDid", "Base58 decode failed")
    ELSE IF Len(decoded[1]) < 2 THEN ErrResult("InvalidDid", "Decoded data too short")
    ELSE IF SubSeq(decoded[1], 1, 2) /= Multicodec
    THEN ErrResult("InvalidDid", "Invalid multicodec prefix")
    ELSE IF Len(decoded[1]) - 2 /= 32
    THEN ErrResult("InvalidPublicKey", "Invalid key length")
    ELSE OkResult(SubSeq(decoded[1], 3, Len(decoded[1])))

VerificationResult(valid, public_key_bytes, computed_hash, error) ==
    OkResult([valid |-> valid, public_key_bytes |-> public_key_bytes,
              computed_hash |-> computed_hash, error |-> error])

\* What a verify_sync_file call returned and the library calls it made.
Verified(returned, calls) == [returned |-> returned, calls |-> calls]

\* A verifier that goes on to the signature when the hashes differ.
verify_sync_file_ignoring_hash(file, signature) ==
    LET hash == blake3_hash(file[1])
        computed_hash == format_hash(hash)
        public_key == extract_public_key(signature.public_key)
        signature_bytes == base64_decode(signature.signature)
        valid == /\ public_key.code = "Ok"
                 /\ VerifyingKey_from_bytes(public_key.value[1]) /= None
                 /\ signature_bytes /= None
                 /\ signature_bytes[1].len = 64
                 /\ verify(VerifyingKey_from_bytes(public_key.value[1])[1],
                           signature.content_hash[2].hex, signature_bytes[1])
    IN IF signature.algorithm /= "Ed25519"
       THEN Verified(ErrResult("UnsupportedAlgorithm", signature.algorithm), <<>>)
       ELSE IF file = None
       THEN Verified(ErrResult("Io", "I/O error"), <<"fs::read">>)
       ELSE Verified(VerificationResult(valid, public_key.value, computed_hash,
                                        IF valid THEN None
                                        ELSE Some(<<"Signature verification failed">>)),
                     <<"fs::read", "blake3::hash", "extract_public_key", "verify">>)

\* verify_sync_file(path, signature), file being what the path holds.
verify_sync_file(file, signature) ==
    LET hash == blake3_hash(file[1])
        computed_hash == format_hash(hash)
        public_key == extract_public_key(signature.public_key)
        verifying_key == VerifyingKey_from_bytes(public_key.value[1])
        signature_bytes == base64_decode(signature.signature)
        read == <<"fs::read", "blake3::hash">>
    IN IF signature.algorithm /= "Ed25519"
       THEN Verified(ErrResult("UnsupportedAlgorithm", signature.algorithm), <<>>)
       ELSE IF file = None
       THEN Verified(ErrResult("Io", "I/O error"), <<"fs::read">>)
       ELSE IF computed_hash /= signature.content_hash
       THEN Verified(VerificationResult(FALSE, None, computed_hash,
                         Some(<<"Content ", "hash mismatch", ": expected ", ", got ">>)),
                     read)
       ELSE IF public_key.code /= "Ok"
       THEN Verified(VerificationResult(FALSE, None, computed_hash,
                         Some(<<"Invalid public key: ", public_key.detail>>)),
                     read \o <<"extract_public_key">>)
       ELSE IF verifying_key = None
       THEN Verified(VerificationResult(FALSE, public_key.value, computed_hash,
                         Some(<<"Invalid verifying key: ">>)),
                     read \o <<"extract_public_key", "VerifyingKey::from_bytes">>)
       ELSE IF signature_bytes = None
       THEN Verified(VerificationResult(FALSE, public_key.value, computed_hash,
                         Some(<<"Invalid base64 signature: ">>)),
                     read \o <<"extract_public_key", "VerifyingKey::from_bytes",
                               "base64::decode">>)
       ELSE IF signature_bytes[1].len /= 64
       THEN Verified(VerificationResult(FALSE, public_key.value, computed_hash,
                         Some(<<"Invalid signature length: expected 64, got ">>)),
                     read \o <<"extract_public_key", "VerifyingKey::from_bytes",
                               "base64::decode">>)
       ELSE IF verify(verifying_key[1], hash, signature_bytes[1])
       THEN Verified(VerificationResult(TRUE, public_key.value, computed_hash, None),
                     read \o <<"extract_public_key", "VerifyingKey::from_bytes",
                               "base64::decode", "verify">>)
       ELSE Verified(VerificationResult(FALSE, public_key.value, computed_hash,
                         Some(<<"Signature verification failed: ">>)),
                     read \o <<"extract_public_key", "VerifyingKey::from_bytes",
                               "base64::decode", "verify">>)

VerifyStep(v) ==
    /\ verification' = v
    /\ UNCHANGED <<sessionVars, execVars, fsVars, engineVars, nameVars,
                   vault_check, builders, listing, mount, server>>

\* The file is written, or changed after it was signed.
write_file(bytes) ==
    /\ verification.file /= Some(bytes)
    /\ VerifyStep([verification EXCEPT !.file = Some(bytes)])

\* The file is removed.
remove_file ==
    /\ verification.file /= None
    /\ VerifyStep([verification EXCEPT !.file = None])

\* A caller verifies the file against a detached signature.
verify_file(signature) ==
    LET v == verify_sync_file(verification.file, signature) IN
    VerifyStep([verification EXCEPT !.verified = verification.file,
                                    !.signature = Some(signature),
                                    !.returned = v.returned,
                                    !.calls = v.calls])

(***************************************************************************)
(* SpecVerify: a file that holds one of two contents or is missing, and a  *)
(* caller that verifies it against signatures whose four fields are right, *)
(* made for the other content or by another key, or malformed.             *)
(***************************************************************************)
FileContents == {<<"t", "e", "s", "t">>, <<"t", "e", "s", "T">>}

\* The signature a signer's tool writes for a file.
sign_file(key, bytes) ==
    [algorithm |-> "Ed25519",
     public_key |-> did_key(Multicodec \o verifying_key_bytes(key)),
     signature |-> base64_encode(sign(key, blake3_hash(bytes))),
     content_hash |-> format_hash(blake3_hash(bytes))]

Dids ==
    {did_key(Multicodec \o verifying_key_bytes(key)) : key \in SigningKeys}
        \cup {did_key(<<236, 1>> \o verifying_key_bytes("k1")),
              did_key(Multicodec \o [i \in 1..31 |-> "k1"]),
              did_key(Multicodec \o [i \in 1..32 |-> "no point"]),
              did_key(<<237>>),
              <<"did:key:z", NotOfTheAlphabet>>,
              <<"did:web:", bs58_encode(Multicodec \o verifying_key_bytes("k1"))>>}

SignatureTexts ==
    {base64_encode(sign(key, blake3_hash(bytes))) :
         key \in SigningKeys, bytes \in FileContents}
        \cup {base64_encode([sign("k1", blake3_hash(<<"t", "e", "s", "t">>))
                                EXCEPT !.len = 63]),
              base64_encode(sign("k1", hex_encode(blake3_hash(<<"t", "e", "s", "t">>)))),
              NotOfTheAlphabet}

ContentHashes ==
    {format_hash(blake3_hash(bytes)) : bytes \in FileContents}
        \cup {<<"sha256:", hex_encode(blake3_hash(<<"t", "e", "s", "t">>))>>}

Signatures ==
    [algorithm : {"Ed25519", "ed25519"}, public_key : Dids,
     signature : SignatureTexts, content_hash : ContentHashes]

InitVerify ==
    /\ session = new(TestManifestPermissions)
    /\ ExecIdle
    /\ env = ProcessEnv
    /\ EngineIdle
    /\ NamesIdle
    /\ RestIdle
    /\ zip_deflate = TRUE
    /\ NoTasks
    /\ dir = [p \in Paths |-> 0]
    /\ inode = [i \in InodeIds |-> FreeFile]

NextVerify ==
    \/ \E bytes \in FileContents : write_file(bytes)
    \/ remove_file
    \/ \E signature \in Signatures : verify_file(signature)

SpecVerify == InitVerify /\ [][NextVerify]_vars

(***************************************************************************)
(* The background WebDAV server: serve_background spawns the accept loop,  *)
(* the loop spawns one detached handler task per connection, and the       *)
(* SyncWebDavServer value the caller holds carries the sender of the       *)
(* loop's oneshot shutdown channel.                                        *)
(***************************************************************************)
ServerStep(s) ==
    /\ server' = s
    /\ UNCHANGED <<sessionVars, execVars, fsVars, engineVars, nameVars,
                   vault_check, builders, listing, mount, verification>>

\* The handler tasks that are serving a connection.
Running(s) == {i \in DOMAIN s.connections : s.connections[i].state = "running"}

\* server.rs 154-219: bind, create the channel, spawn the accept loop and
\* return the SyncWebDavServer.
serve_background ==
    /\ server.pc = "none"
    /\ ServerStep([server EXCEPT !.pc = "accepting", !.shutdown_tx = Some("tx")])

\* server.rs 179-201: the select! takes listener.accept() and the loop spawns
\* the connection's handler task. select! polls its branches in random
\* order, so a connection that is pending is taken whether or not the
\* shutdown signal is pending too.
accept_connection ==
    /\ server.pc = "accepting"
    /\ Len(server.connections) < MaxConnections
    /\ ServerStep([server EXCEPT
                      !.connections = Append(@, [state |-> "running", served |-> 0])])

\* server.rs 187-191: the handler of connection i answers a request.
handler_serves(i) ==
    /\ i \in Running(server)
    /\ server.connections[i].served < MaxServed
    /\ ServerStep([server EXCEPT !.connections[i].served = @ + 1])

\* server.rs 184-199: serve_connection returns, the client having closed the
\* connection, and the handler task ends.
handler_completes(i) ==
    /\ i \in Running(server)
    /\ ServerStep([server EXCEPT !.connections[i].state = "done"])

\* A shutdown that aborts the handler tasks with the loop.
shutdown_aborting_handlers ==
    /\ server.shutdown_tx /= None
    /\ ServerStep([server EXCEPT
                      !.shutdown_tx = None,
                      !.signal = "sent",
                      !.in_flight = Running(server),
                      !.connections =
                          [i \in DOMAIN @ |->
                              IF @[i].state = "running"
                              THEN [@[i] EXCEPT !.state = "cancelled"] ELSE @[i]]])

\* SyncWebDavServer::shutdown: take the sender and send the signal.
SyncWebDavServer_shutdown ==
    /\ server.shutdown_tx /= None
    /\ ServerStep([server EXCEPT !.shutdown_tx = None,
                                 !.signal = "sent",
                                 !.in_flight = Running(server)])

\* The caller drops the SyncWebDavServer without a shutdown: the sender is
\* dropped, and the receiver resolves with an error.
SyncWebDavServer_dropped ==
    /\ server.shutdown_tx /= None
    /\ ServerStep([server EXCEPT !.shutdown_tx = None, !.signal = "closed"])

\* server.rs 206-209: the select! takes the receiver, and the loop breaks;
\* the listener is dropped with the task.
accept_loop_exits ==
    /\ server.pc = "accepting"
    /\ server.signal /= ""
    /\ ServerStep([server EXCEPT !.pc = "exited"])

(***************************************************************************)
(* SpecServer: a background server, clients that connect and send          *)
(* requests, and a caller that shuts the server down or drops it.          *)
(* SpecServerLive adds the scheduling of the runtime: the accept loop's    *)
(* task is polled once the receiver is ready, and select!'s random order   *)
(* lets the receiver's branch win; a handler task is polled until its      *)
(* connection is closed, which a client does.                              *)
(***************************************************************************)
InitServer ==
    /\ session = new(TestManifestPermissions)
    /\ ExecIdle
    /\ env = ProcessEnv
    /\ EngineIdle
    /\ NamesIdle
    /\ RestIdle
    /\ zip_deflate = TRUE
    /\ NoTasks
    /\ dir = [p \in Paths |-> 0]
    /\ inode = [i \in InodeIds |-> FreeFile]

NextServer ==
    \/ serve_background
    \/ accept_connection
    \/ \E i \in 1..MaxConnections : handler_serves(i)
    \/ \E i \in 1..MaxConnections : handler_completes(i)
    \/ SyncWebDavServer_shutdown
    \/ SyncWebDavServer_dropped
    \/ accept_loop_exits

SpecServer == InitServer /\ [][NextServer]_vars

SpecServerLive ==
    /\ InitServer
    /\ [][NextServer]_vars
    /\ WF_vars(accept_loop_exits)
    /\ \A i \in 1..MaxConnections : WF_vars(handler_completes(i))

(***************************************************************************)
(* SpecWrites: the guest of one execution reads the payload and writes     *)
(* the updated payload, at offsets inside, at the end of and beyond what   *)
(* it wrote before.                                                        *)
(***************************************************************************)
WriteOffsets == {0, 1, 3}

InitWrites ==
    /\ session = new(TestManifestPermissions)
    /\ ExecIdle
    /\ env = ProcessEnv
    /\ EngineIdle
    /\ NamesIdle
    /\ RestIdle
    /\ zip_deflate = TRUE
    /\ NoTasks
    /\ dir = [p \in Paths |-> IF p = ArchiveA THEN 1 ELSE 0]
    /\ inode = [i \in InodeIds |->
                   IF i = 1 THEN RunArchive("plain", "", <<"h", "i">>) ELSE FreeFile]

NextWrites ==
    \/ runner.pc = "idle" /\ runner.result = NoResult /\ OpenArchive("t1", ArchiveA)
    \/ runner.result = NoResult /\ execute("run")
    \/ \E offset \in WriteOffsets, len \in {1, 2} : payload_read(offset, len)
    \/ \E offset \in WriteOffsets, data \in GuestWrites \cup {<<>>},
          data_in_memory \in BOOLEAN :
          payload_write(offset, Len(data), data, data_in_memory)

SpecWrites == InitWrites /\ [][NextWrites]_vars

(***************************************************************************)
(* Claims                                                                  *)
(***************************************************************************)
WriteShapedActions == {"WritePayload", "UpdatePayload", "WriteContext", "ExecuteWasm"}

AllFlagsSet(s) == \A f \in PermissionFlags : s.permissions[f]

\* C1: whatever the mutators did, a session whose role is consumer is denied
\* WritePayload, UpdatePayload, WriteContext and ExecuteWasm with
\* PermissionDenied, whatever flags are set.
C1_ConsumerContainment ==
    session.role = "Consumer" =>
        \A a \in WriteShapedActions :
            verify_permissions(session, a).code = "PermissionDenied"

\* A consumer session that holds every permission flag, with a host app and
\* headless mode set.
C1_Witness ==
    /\ session.role = "Consumer"
    /\ AllFlagsSet(session)
    /\ session.mode = "Headless"
    /\ session.permissions.allowed_hosts /= <<>>

\* C2: the effective allowlists get_context returns are the set intersection
\* of the session's lists with the manifest's: a name is effective iff it is
\* in both.
C2_Intersection ==
    LET effective == get_context(session).permissions IN
    /\ Range(effective.allowed_hosts) =
           Range(session.permissions.allowed_hosts)
               \cap Range(session.manifest_permissions.allow_hosts)
    /\ Range(effective.allowed_env) =
           Range(session.permissions.allowed_env)
               \cap Range(session.manifest_permissions.allow_env)
    /\ effective = effective_permissions(session)

\* The session of the test: both a declared and an undeclared host and
\* variable allowed, one of each effective.
C2_Witness ==
    /\ session.manifest_permissions = TestManifestPermissions
    /\ Range(session.permissions.allowed_hosts) = {"example.com", "evil.com"}
    /\ Range(session.permissions.allowed_env) = {"FOO", "BAZ"}
    /\ get_context(session).permissions.allowed_hosts = <<"example.com">>
    /\ get_context(session).permissions.allowed_env = <<"FOO">>

\* The flag the authorization table names for an action.
TableFlag(a) ==
    CASE a = "ReadPayload" -> "can_read_payload"
      [] a = "ReadContext" -> "can_read_context"
      [] a = "WritePayload" -> "can_write_payload"
      [] a = "UpdatePayload" -> "can_write_payload"
      [] a = "WriteContext" -> "can_write_context"
      [] a = "ExecuteWasm" -> "can_execute_wasm"

\* C3: for an owner, verify_permissions(a) succeeds iff the flag of a is set;
\* for a consumer, ReadPayload and ReadContext succeed iff their flag is set.
C3_GrantRequired ==
    /\ session.role = "Owner" =>
           \A a \in GuestActions :
               (verify_permissions(session, a) = Ok) <=> session.permissions[TableFlag(a)]
    /\ session.role = "Consumer" =>
           \A a \in {"ReadPayload", "ReadContext"} :
               (verify_permissions(session, a) = Ok) <=> session.permissions[TableFlag(a)]

\* An owner who may write the payload but not the context and may not read
\* the payload.
C3_Witness ==
    /\ session.role = "Owner"
    /\ session.permissions.can_write_payload
    /\ ~session.permissions.can_write_context
    /\ ~session.permissions.can_read_payload
    /\ verify_permissions(session, "UpdatePayload") = Ok

\* C10: a call of execute_request that verify_permissions denies returns
\* PermissionDenied and has no effect: no request id is taken, no child is
\* spawned, nothing is written to a child.
C10_GateBeforeEffects ==
    [][\A a \in GuestActions :
          (/\ verify_permissions(session, a) /= Ok
           /\ \E c \in ChildOutcomes : execute_request(a, c))
          => /\ response'.code = "PermissionDenied"
             /\ response'.request_id = None
             /\ REQUEST_COUNTER' = REQUEST_COUNTER
             /\ children' = children
             /\ stdin_writes' = stdin_writes]_vars

\* A denied ExecuteWasm on a session with no host app, after an earlier
\* request reached a child.
C10_Witness ==
    /\ response.code = "PermissionDenied"
    /\ response.action = "ExecuteWasm"
    /\ session.host_app = None \/ session.role = "Consumer"
    /\ children >= 1
    /\ REQUEST_COUNTER = children + 1

\* The call reached apply_env_policy and it returned Ok.
PreparesCommand == REQUEST_COUNTER' /= REQUEST_COUNTER /\ command_env' /= None

\* Every variable of the child's environment is a baseline name, a prefixed
\* name, a key apply_env_policy sets, or a name of the effective allowlist.
OnlyPolicyNames(cmd) ==
    \A k \in EnvKeys :
        cmd[k] /= None =>
            \/ k \in {"PATH", "LANG", "LC_ALL", "HOME", "USER"}
            \/ k \in {"CAPSULE_X", "ATO_Y", "CAPSULE_GUEST_PROTOCOL"}
            \/ k \in InjectedKeys
            \/ /\ k \in Range(session.permissions.allowed_env)
               /\ k \in Range(session.manifest_permissions.allow_env)

\* The child has the process's value of k.
Forwarded(cmd, k) == env[k] /= None /\ cmd[k] = env[k]

SessionOnly ==
    Range(session.permissions.allowed_env) \ Range(session.manifest_permissions.allow_env)

\* ALLOW_HOSTS and ALLOW_ENV list the names that are in both the session's
\* and the manifest's list, and nothing else.
CarriesEffectiveLists(cmd) ==
    /\ cmd["ALLOW_HOSTS"] /= None /\ cmd["ALLOW_ENV"] /= None
    /\ Range(cmd["ALLOW_HOSTS"][1]) \ {","} =
           Range(session.permissions.allowed_hosts)
               \cap Range(session.manifest_permissions.allow_hosts)
    /\ Range(cmd["ALLOW_ENV"][1]) \ {","} =
           Range(session.permissions.allowed_env)
               \cap Range(session.manifest_permissions.allow_env)

\* C11 as stated: the child's environment holds only baseline, prefixed,
\* injected and effectively allowed names; no name the session allowed and
\* the manifest did not declare is forwarded; ALLOW_HOSTS and ALLOW_ENV carry
\* the effective lists.
C11_EnvWithinManifest ==
    [][PreparesCommand =>
          LET cmd == command_env'[1] IN
          /\ OnlyPolicyNames(cmd)
          /\ \A k \in SessionOnly : ~Forwarded(cmd, k)
          /\ CarriesEffectiveLists(cmd)]_vars

\* C11, amended: a name the session allowed and the manifest did not declare
\* is forwarded only if it is a baseline name or has the CAPSULE_ or ATO_
\* prefix (such a name is forwarded whatever the two lists hold).
C11_EnvWithinManifestOrBaseline ==
    [][PreparesCommand =>
          LET cmd == command_env'[1] IN
          /\ OnlyPolicyNames(cmd)
          /\ \A k \in SessionOnly :
                Forwarded(cmd, k) =>
                    \/ k \in {"PATH", "LANG", "LC_ALL", "HOME", "USER"}
                    \/ k \in {"CAPSULE_X", "ATO_Y", "CAPSULE_GUEST_PROTOCOL"}
          /\ CarriesEffectiveLists(cmd)]_vars

\* A child prepared for a session that allowed FOO and BAZ in a process that
\* has both, under a manifest that declares FOO only: FOO is forwarded, BAZ
\* is not, and ALLOW_ENV is FOO.
C11_Witness ==
    /\ command_env /= None
    /\ {"FOO", "BAZ"} \subseteq Range(session.permissions.allowed_env)
    /\ session.manifest_permissions = TestManifestPermissions
    /\ env["BAZ"] /= None /\ env["SECRET"] /= None
    /\ command_env[1]["FOO"] = env["FOO"]
    /\ command_env[1]["BAZ"] = None
    /\ command_env[1]["SECRET"] = None
    /\ command_env[1]["ALLOW_ENV"] = Some(<<"FOO">>)

\* Widget mode with bounds of positive width and height, or headless mode
\* with no bounds.
BoundsFitMode ==
    \/ /\ session.mode = "Widget"
       /\ session.widget_bounds /= None
       /\ session.widget_bounds[1].width > 0
       /\ session.widget_bounds[1].height > 0
    \/ /\ session.mode = "Headless"
       /\ session.widget_bounds = None

\* A step of execute_request: only it changes the response or takes a
\* request id.
ExecuteRequestStep == response' /= response \/ REQUEST_COUNTER' /= REQUEST_COUNTER

\* C12 as stated: a call spawns a child only when the bounds fit the mode,
\* and every call made when they do not returns InvalidRequest and spawns
\* nothing.
C12_BoundsFitModeOrInvalid ==
    [][ExecuteRequestStep =>
          /\ (children' /= children \/ command_env' /= None) => BoundsFitMode
          /\ ~BoundsFitMode =>
                /\ response'.code = "InvalidRequest"
                /\ children' = children
                /\ stdin_writes' = stdin_writes]_vars

\* C12, amended: a call made when the bounds do not fit the mode spawns
\* nothing and returns an error: PermissionDenied if the permission gate
\* denies the action, else HostUnavailable if no host app is configured,
\* else InvalidRequest.
C12_BoundsFitModeOrRejected ==
    [][ExecuteRequestStep =>
          /\ (children' /= children \/ command_env' /= None) => BoundsFitMode
          /\ ~BoundsFitMode =>
                /\ children' = children
                /\ stdin_writes' = stdin_writes
                /\ command_env' = None
                /\ response'.code =
                      IF verify_permissions(session, response'.action) /= Ok
                      THEN "PermissionDenied"
                      ELSE IF session.host_app = None THEN "HostUnavailable"
                      ELSE "InvalidRequest"]_vars

\* A headless session that has widget bounds: both of its requests were
\* rejected with InvalidRequest and no child was spawned.
C12_Witness ==
    /\ session.mode = "Headless"
    /\ session.widget_bounds /= None
    /\ session.host_app /= None
    /\ response.code = "InvalidRequest"
    /\ response.request_id = Some(2)
    /\ children = 0
    /\ command_env = None

\* The allowlist rule: the list holds the host itself, or a pattern "*.suffix"
\* whose suffix the host ends with.
HostMatches(allowed, host) ==
    \E i \in DOMAIN allowed :
        \/ allowed[i] = host
        \/ /\ Len(allowed[i]) >= 2 /\ allowed[i][1] = "*" /\ allowed[i][2] = "."
           /\ ends_with(host, SubSeq(allowed[i], 3, Len(allowed[i])))

HttpRequestStep ==
    runner'.calls = runner.calls + 1 /\ runner'.call = "http_request"

\* C13: http_request sends a request only to a host the manifest allowlist
\* matches; for a URL whose host the allowlist does not match it returns
\* the "not allowed" sentinel -2, sends nothing and leaves the last
\* response as it was.
C13_RequestOnlyToAllowedHost ==
    [][HttpRequestStep =>
          LET allowed == host_state[1].allowed_hosts
              host == url_host(runner'.url)
              matched == host /= None /\ HostMatches(allowed, host[1])
          IN /\ network' /= network => matched
             /\ (runner'.ret /= -1 /\ host /= None /\ ~matched) =>
                    /\ runner'.ret = -2
                    /\ network' = network
                    /\ host_state'[1].last_response = host_state[1].last_response]_vars

\* C14: each of the two checks returns true exactly when the allowlist holds
\* the host itself or a pattern "*.suffix" whose suffix the host ends with:
\* the entry api.example.com allows neither other.example.com nor
\* xapi.example.com, and the empty allowlist allows nothing.
C14_AllowedIffExactOrWildcard ==
    host_check.fn /= "" =>
        host_check.result =
            HostMatches(host_check.allowed,
                        IF host_check.fn = "HostState::is_host_allowed"
                        THEN url_host(host_check.arg)[1]
                        ELSE host_check.arg)

\* A step in which execute returns Ok to its caller.
ExecuteReturnsOk ==
    runner.pc /= "idle" /\ runner'.pc = "idle" /\ runner'.result.code = "Ok"

\* C15: when execute returns Ok, for a guest entered through run or through
\* _start, payload_updated is true exactly if the guest wrote a payload with
\* payload_write; the archive's payload is then the buffer it wrote, and is
\* otherwise the payload execute found.
C15_UpdatedIffWritten ==
    [][ExecuteReturnsOk =>
          LET updated == host_state[1].updated_payload
              payload == read_payload(dir', inode', zip_deflate, archive'["t1"][1])
          IN /\ runner'.result.value[1].payload_updated = (updated /= None)
             /\ payload.value = IF updated /= None THEN updated
                                ELSE Some(host_state[1].payload_buffer)]_vars

\* C16: every execute returns to its caller: a guest that does not return by
\* itself is aborted when the configured timeout expires.
C16_ExecuteTerminates == (runner.pc /= "idle") ~> (runner.pc = "idle")

\* C17: on a vault archive, execute without a passphrase fails before the
\* guest runs; with the passphrase the payload buffer the guest reads is the
\* decrypted plaintext, and a payload P the guest wrote is stored encrypted:
\* read_payload_with_password returns P and the stored entry is not P.
C17_VaultPlaintextOnlyInMemory ==
    [][/\ (/\ runner.pc = "idle"
           /\ archive["t1"] /= None
           /\ archive["t1"][1].manifest.variant = "vault"
           /\ runner.password = None) => runner'.pc = "idle"
       /\ (runner.pc = "idle" /\ runner'.pc = "guest" /\ runner'.is_vault) =>
              Some(host_state'[1].payload_buffer)
                  = read_payload_with_password(dir, inode, zip_deflate,
                                               archive["t1"][1], runner.password[1]).value
       /\ (/\ ExecuteReturnsOk
           /\ runner.is_vault
           /\ host_state[1].updated_payload /= None) =>
              /\ read_payload_with_password(dir', inode', zip_deflate,
                                            archive'["t1"][1], runner.password[1]).value
                     = host_state[1].updated_payload
              /\ read_payload(dir', inode', zip_deflate, archive'["t1"][1]).value
                     /= host_state[1].updated_payload]_vars

\* payload_write returned the length of the bytes it took from the guest.
PayloadWritten ==
    /\ runner'.calls = runner.calls + 1
    /\ runner'.call = "payload_write"
    /\ runner'.ret /= -1

PayloadRead == runner'.calls = runner.calls + 1 /\ runner'.call = "payload_read"

\* C30: a payload_write(offset, data) returns Len(data) and leaves the
\* updated-payload buffer as long as the larger of its old length and
\* offset + Len(data), holding data at the offset, its old bytes elsewhere
\* and zero where nothing was ever written; it never changes the payload
\* buffer, from which payload_read keeps returning the archive's payload.
C30_WritesLandAtOffsets ==
    [][/\ PayloadWritten =>
             LET before == IF host_state[1].updated_payload = None THEN <<>>
                        ELSE host_state[1].updated_payload[1]
                 after == host_state'[1].updated_payload[1]
                 offset == runner'.offset
                 data == runner'.data
             IN /\ runner'.ret = Len(data)
                /\ Len(after) = Max({Len(before), offset + Len(data)})
                /\ \A i \in 1..Len(after) :
                      after[i] = IF i > offset /\ i <= offset + Len(data)
                               THEN data[i - offset]
                               ELSE IF i <= Len(before) THEN before[i] ELSE "\\0"
                /\ host_state'[1].payload_buffer = host_state[1].payload_buffer
       /\ PayloadRead =>
             LET payload == read_payload(dir, inode, zip_deflate, archive["t1"][1]).value[1]
                 offset == runner'.offset
             IN /\ runner'.out =
                      SubSeq(payload, offset + 1, offset + runner'.ret)
                /\ runner'.ret <= Len(payload) - offset \/ runner'.ret = 0]_vars

\* The guest wrote "ew" at 0 and then "n" at 3: the buffer is "ew", a zero
\* and "n", and the payload buffer is still "hi".
C30_Witness ==
    /\ runner.pc = "guest"
    /\ runner.call = "payload_write"
    /\ runner.offset = 3
    /\ runner.ret = 1
    /\ host_state[1].updated_payload = Some(<<"e", "w", "\\0", "n">>)
    /\ host_state[1].payload_buffer = <<"h", "i">>

\* The payload of the archive file at a path.
PayloadAt(d, n, path) ==
    LET entries == n[d[path]].entries
        payloads == IndicesOf(entries, "payload")
    IN entries[Max(payloads)].data

C22_RenameMovesArchive ==
    [][(/\ listing'.call = "rename"
        /\ listing'.code = "Ok"
        /\ listing'.from /= listing'.to
        /\ ~is_ignored_name(listing'.from)
        /\ ~is_ignored_name(listing'.to))
       => /\ resolve_sync_path(dir', inode', zip_deflate', listing'.from) = {None}
          /\ \A moved \in resolve_sync_path(dir', inode', zip_deflate', listing'.to) :
                /\ moved /= None
                /\ \E source \in resolve_sync_path(dir, inode, zip_deflate, listing'.from) :
                      /\ source /= None
                      /\ inode'[dir'[moved[1]]] = inode[dir[source[1]]]
      ]_vars

\* The archives of the store, by path.
StoreArchives(d, n) ==
    [p \in ArchivePaths |-> IF d[p] = 0 THEN FreeFile ELSE n[d[p]]]

\* C23: in writable mode, for a path at any depth whose final name begins
\* with "._" or is ".DS_Store", opening for write, writing and flushing
\* succeed as no-ops and never create or modify an archive of the store, and
\* no directory listing contains an entry with such a name.
C23_IgnoredNamesAreNoOps ==
    [][/\ \A t \in Tasks :
             (/\ handle'[t].kind /= "None"
              /\ is_ignored_name(file_name(handle'[t].name))
              /\ \/ handle'[t].options.write
                 \/ handle'[t].options.create
                 \/ handle'[t].options.create_new
                 \/ handle'[t].options.truncate)
             => /\ outcome'[t].call \in {"open", "write_bytes", "flush"}
                     => outcome'[t].code = "Ok"
                /\ StoreArchives(dir', inode') = StoreArchives(dir, inode)
       /\ \A dir_path \in Dirs :
             \A name \in entries_in_dir(dir', inode', zip_deflate', dir_path) :
                ~is_ignored_name(name)
      ]_vars

\* The data of the payload entry of the archive file the server has open.
MountedPayload ==
    LET entries == inode[mount.file.ino].entries
    IN entries[Min(IndicesOf(entries, "payload"))].data

\* C24: in read-only mode, read_bytes(count) at position p of an opened file
\* with payload offset O and size S reads the archive file at O + p, returns
\* only bytes of the payload range [p, min(p + count, S)), nothing when
\* p >= S, and advances the position by the number of bytes returned; no
\* byte of the archive outside [O, O + S) is returned.
C24_ReadsStayInPayload ==
    [][(mount'.call = "read_bytes" /\ mount.file.open)
       => LET O == mount.file.entry.offset
              S == mount.file.entry.size
              pos == mount.file.position
              returned == mount'.bytes
              end == IF pos + mount'.count <= S THEN pos + mount'.count ELSE S
          IN /\ mount'.code = "Ok"
             /\ returned = SubSeq(MountedPayload, pos + 1, end)
             /\ pos >= S => returned = <<>>
             /\ mount'.file.position = pos + Len(returned)
             /\ returned /= <<>>
                   => /\ mount'.at = O + pos
                      /\ mount'.at + Len(returned) <= O + S
                      /\ returned = SubSeq(FileBytes(inode[mount.file.ino]),
                                           mount'.at + 1, mount'.at + Len(returned))
      ]_vars

\* A read in the middle of the payload, after a seek, returned its bytes.
C24_Witness ==
    /\ mount.call = "read_bytes"
    /\ mount.at > mount.file.entry.offset
    /\ mount.bytes = <<"p2", "p3">>
    /\ mount.file.position = 3

\* C25: in read-only mode every write-shaped request (open with write,
\* create, create_new or truncate; write_buf, write_bytes; create_dir,
\* remove_file, remove_dir, rename, copy) fails as forbidden and leaves the
\* archive file unchanged.
C25_WritesAreForbidden ==
    [][(\/ mount'.call \in {"write_buf", "write_bytes"} \cup Provided
        \/ mount'.call = "open" /\ mount'.wants_write)
       => /\ mount'.code = "Forbidden"
          /\ dir' = dir
          /\ inode' = inode
      ]_vars

\* The ids of the requests thread th has built or is building.
IdsOf(th) ==
    Range(builders.thread[th].built)
        \cup (IF builders.thread[th].request_id = None THEN {}
              ELSE {builders.thread[th].request_id[1]})

StrictlyIncreasing(ids) == \A i, j \in DOMAIN ids : i < j => ids[i] < ids[j]

\* C26: request ids are unique and strictly increasing in issue order across
\* the sessions and clones of the process, also when several threads build
\* requests concurrently: no two requests carry the same id.
C26_RequestIdsUnique ==
    /\ StrictlyIncreasing(builders.issued)
    /\ \A th \in Threads :
          /\ StrictlyIncreasing(builders.thread[th].built)
          /\ Cardinality(IdsOf(th)) =
                Len(builders.thread[th].built)
                    + (IF builders.thread[th].request_id = None THEN 0 ELSE 1)
    /\ \A a, b \in Threads : a /= b => IdsOf(a) \cap IdsOf(b) = {}

\* Two threads are inside build_request at once, after a third built one.
C26_Witness ==
    /\ builders.thread["th1"].pc = "building"
    /\ builders.thread["th2"].pc = "building"
    /\ builders.thread["th3"].built /= <<>>
    /\ builders.thread["th1"].request_id[1] > builders.thread["th2"].request_id[1]

\* The streams of the child the last call ran, and the response one of them
\* holds: standard output's, or the error stream's when standard output
\* did not parse.
ChildStdout == written(response.child.stdout, [request_id |-> response.request_id])
ChildStderr == written(response.child.stderr, [request_id |-> response.request_id])

ChildResponse ==
    IF ChildStdout.kind = "response" THEN Some(ChildStdout.response)
    ELSE IF ChildStderr.kind = "response" THEN Some(ChildStderr.response)
    ELSE None

\* C27: parse_response returns the child's response only if it parsed, from
\* standard output or else from the error stream, with the request's id and
\* version guest.v1; in every other case it returns a synthesized response
\* with ok = false, code ProtocolError and the request's own id.
C27_ParsedOrProtocolError ==
    response.parsed /= None =>
        IF /\ ChildResponse /= None
           /\ ChildResponse[1].request_id = response.request_id
           /\ ChildResponse[1].version = "guest.v1"
        THEN response.parsed[1] = ChildResponse[1]
        ELSE /\ response.parsed[1].ok = FALSE
             /\ response.parsed[1].error /= None
             /\ response.parsed[1].error[1].code = "ProtocolError"
             /\ response.parsed[1].request_id = response.request_id
             /\ response.parsed[1].version = "guest.v1"

\* The second request's child wrote text to standard output and a response
\* to the error stream, which parse_response returned.
C27_Witness ==
    /\ response.request_id = Some(2)
    /\ ChildStdout.kind = "text"
    /\ ChildStderr.kind = "response"
    /\ response.parsed = Some(ChildStderr.response)
    /\ response.parsed[1].ok

\* C28: every response execute_request returns for a child that exited with
\* a non-zero status has ok = false, and every returned response with
\* ok = false carries an error.
C28_FailureHasError ==
    response.reply /= None =>
        /\ ~response.child.success => ~response.reply[1].ok
        /\ ~response.reply[1].ok => response.reply[1].error /= None

\* A child answered ok and exited non-zero: the response was downgraded.
C28_Witness ==
    /\ response.reply /= None
    /\ ~response.child.success
    /\ response.parsed[1].ok
    /\ ~response.reply[1].ok
    /\ response.reply[1].error[1].code = "ExecutionFailed"

\* C29: for every manifest, SyncArchive::is_vault is true iff sync.variant is
\* vault or encryption.enabled is true, as SyncManifest::is_vault is, and the
\* password-based read and write decrypt and encrypt exactly for those
\* archives.
C29_IsVaultIffVariantOrEncryption ==
    archive["t1"] /= None =>
        LET manifest == archive["t1"][1].manifest
            vault == manifest.variant = "vault" \/ manifest.encryption_enabled
        IN  /\ vault_check.fn /= "" => vault_check.result = vault
            /\ (vault_check.fn = "write_payload_with_password"
                    /\ task["t1"].op = "update_payload") =>
                   task["t1"].src = IF vault
                                    THEN encrypt_data(vault_check.data, Passphrase)
                                    ELSE vault_check.data

\* What SyncArchive::open was given: the entries of the file at ArchiveA.
OpenedEntries == inode[dir[ArchiveA]].entries
HasEntry(name) == \E i \in DOMAIN OpenedEntries : OpenedEntries[i].name = name
PayloadStored ==
    \A i \in DOMAIN OpenedEntries :
        OpenedEntries[i].name = "payload" => OpenedEntries[i].compression = "Stored"
ManifestParses ==
    \E i \in DOMAIN OpenedEntries :
        /\ OpenedEntries[i].name = "manifest.toml"
        /\ OpenedEntries[i].data \in {ManifestToml("text/plain", "txt")}
AllReadable ==
    zip_deflate \/ \A i \in DOMAIN OpenedEntries : OpenedEntries[i].compression = "Stored"
Opened == dir[ArchiveA] /= 0 /\ outcome["t1"] /= NoOutcome

\* C6 as stated: open succeeds iff manifest.toml and sync.wasm are present and
\* the payload, if present, is stored; a missing manifest.toml or sync.wasm
\* fails with MissingEntry naming a missing entry; a compressed payload fails
\* with the format error.
C6_OpenIffLayout ==
    Opened =>
        /\ (outcome["t1"].code = "Ok") <=>
               (HasEntry("manifest.toml") /\ HasEntry("sync.wasm") /\ PayloadStored)
        /\ (PayloadStored /\ ~(HasEntry("manifest.toml") /\ HasEntry("sync.wasm"))) =>
               /\ outcome["t1"].code = "MissingEntry"
               /\ outcome["t1"].detail \in {"manifest.toml", "sync.wasm"}
               /\ ~HasEntry(outcome["t1"].detail)
        /\ ~PayloadStored => outcome["t1"].code \in {"InvalidFormat", "ZipError"}

\* C6, amended: open succeeds iff manifest.toml and sync.wasm are present, the
\* payload, if present, is stored, manifest.toml parses as a manifest, and
\* every entry uses a method the zip crate was built to read. Otherwise the
\* first failure in the code's order decides: an unreadable entry is a zip
\* error, a compressed payload InvalidFormat, then a missing manifest.toml
\* MissingEntry("manifest.toml"), then a missing sync.wasm
\* MissingEntry("sync.wasm"), then the manifest's parse error.
C6_OpenOutcome ==
    Opened =>
        /\ (outcome["t1"].code = "Ok") <=>
               /\ HasEntry("manifest.toml") /\ HasEntry("sync.wasm")
               /\ PayloadStored /\ ManifestParses /\ AllReadable
        /\ (outcome["t1"].code = "Ok") <=> (archive["t1"] /= None)
        /\ ~AllReadable => outcome["t1"].code \in {"ZipError", "InvalidFormat"}
        /\ (AllReadable /\ ~PayloadStored) => outcome["t1"].code = "InvalidFormat"
        /\ (AllReadable /\ PayloadStored /\ ~HasEntry("manifest.toml")) =>
               /\ outcome["t1"].code = "MissingEntry"
               /\ outcome["t1"].detail = "manifest.toml"
        /\ (AllReadable /\ PayloadStored /\ HasEntry("manifest.toml")
                /\ ~HasEntry("sync.wasm")) =>
               /\ outcome["t1"].code = "MissingEntry"
               /\ outcome["t1"].detail = "sync.wasm"
        /\ (AllReadable /\ PayloadStored /\ HasEntry("manifest.toml")
                /\ HasEntry("sync.wasm") /\ ~ManifestParses) =>
               outcome["t1"].code = "TomlError"

\* An envelope with all four entries, a compressed manifest and a stored
\* payload that is not the file's first entry, opened with success.
C6_Witness ==
    /\ Opened
    /\ outcome["t1"].code = "Ok"
    /\ Len(OpenedEntries) = 4
    /\ \E i \in DOMAIN OpenedEntries :
          /\ OpenedEntries[i].name = "manifest.toml"
          /\ OpenedEntries[i].compression = "Deflated"
    /\ archive["t1"][1].payload_size = Some(2)
    /\ archive["t1"][1].payload_offset /= Some(2)

\* The file a path names, if any.
FileAt(d, n, p) == IF d[p] = 0 THEN None ELSE Some(n[d[p]])

NonPayload(entries) ==
    LET keep(e) == e.name /= "payload" IN SelectSeq(entries, keep)

AsStored(entries) ==
    [i \in DOMAIN entries |-> [entries[i] EXCEPT !.compression = "Stored"]]

\* The complete new archive the call of task t is to leave at its target,
\* given the file the target names now.
NewArchiveOf(t, before) ==
    IF task[t].op = "create_sync_from_path"
    THEN BuiltArchive(task[t].content_type,
                      display_ext_from_name(task[t].name), task[t].src)
    ELSE [entries |->
              (IF task[t].op = "update_payload"
               THEN AsStored(NonPayload(before[1].entries))
               ELSE NonPayload(before[1].entries))
                  \o <<Entry("payload", "Stored", task[t].src)>>,
          finished |-> TRUE]

\* C4: at every step of update_payload, update_payload_from_path and
\* create_sync_from_path, an I/O error and a crash included, the file a
\* target path names stays what it was, except at the one rename step, which
\* leaves the complete new archive there.
C4_TargetOldOrNew ==
    [][\A p \in ArchivePaths :
          FileAt(dir', inode', p) /= FileAt(dir, inode, p) =>
              \E t \in Tasks :
                  /\ task[t].pc = "rename"
                  /\ task[t].target = p
                  /\ task'[t].pc \in {"reopen", "idle"}
                  /\ FileAt(dir, inode, p) = None => task[t].op = "create_sync_from_path"
                  /\ FileAt(dir', inode', p)
                         = Some(NewArchiveOf(t, FileAt(dir, inode, p)))]_vars

\* The process was killed inside update_payload with a part of the new
\* archive in the temp file; the target still opens and holds "hi".
C4_Witness ==
    /\ task["t1"].pc = "crashed"
    /\ task["t1"].op = "update_payload"
    /\ dir[<<"a", "sync", "tmp">>] /= 0
    /\ ~inode[dir[<<"a", "sync", "tmp">>]].finished
    /\ Len(inode[dir[<<"a", "sync", "tmp">>]].entries) >= 2
    /\ LET r == SyncArchive_open(dir, inode, zip_deflate, ArchiveA) IN
       /\ r.code = "Ok"
       /\ read_payload(dir, inode, zip_deflate, r.value[1]) = OkResult(<<"h", "i">>)

\* SyncArchive::open or update_payload returns Ok to task t.
OpenOrUpdateReturnsOk(t) ==
    /\ outcome'[t] /= outcome[t] \/ archive'[t] /= archive[t]
    /\ task'[t].pc = "idle"
    /\ outcome'[t].call \in {"open_archive", "update_payload"}
    /\ outcome'[t].code = "Ok"

\* C19: when SyncArchive::open or update_payload returns Ok, first or
\* repeated, the bytes of the archive file from payload_offset to
\* payload_offset + payload_size are what read_payload returns.
C19_OffsetsDescribeFile ==
    [][\A t \in Tasks :
          (OpenOrUpdateReturnsOk(t) /\ archive'[t][1].payload_offset /= None) =>
              LET a == archive'[t][1] IN
              Some(read_at(FileBytes(inode'[dir'[a.path]]),
                           a.payload_offset[1], a.payload_size[1]))
                  = read_payload(dir', inode', zip_deflate, a).value]_vars

\* update_payload has returned Ok on the archive that held context.json: the
\* payload is "new", it lies behind the three other entries, and the value's
\* offset and size say so.
C19_Witness ==
    /\ outcome["t1"] = [call |-> "update_payload", code |-> "Ok", detail |-> ""]
    /\ archive["t1"] /= None
    /\ Len(archive["t1"][1].entries) = 4
    /\ archive["t1"][1].entries[4].name = "payload"
    /\ archive["t1"][1].payload_offset = Some(archive["t1"][1].entries[4].offset)
    /\ archive["t1"][1].payload_size = Some(3)
    /\ read_payload(dir, inode, zip_deflate, archive["t1"][1]) = OkResult(<<"n", "e", "w">>)

\* C18: when update_payload or update_payload_from_path replaces the archive
\* file, every entry of the old file but the payload is in the new file under
\* the same name, with the same bytes and the same compression method.
C18_OnlyPayloadChanges ==
    [][\A t \in Tasks :
          (/\ task[t].op \in {"update_payload", "update_payload_from_path"}
           /\ FileAt(dir, inode, task[t].target) /= None
           /\ FileAt(dir', inode', task[t].target) /= FileAt(dir, inode, task[t].target)) =>
              /\ FileAt(dir', inode', task[t].target) /= None
              /\ \A e \in Range(NonPayload(FileAt(dir, inode, task[t].target)[1].entries)) :
                    e \in Range(FileAt(dir', inode', task[t].target)[1].entries)]_vars

\* The store resolved a name, in sync_path_for or in create_sync_from_path.
NameResolved == path_result' /= path_result

\* The names C20 lists: the empty one and those with a parent-directory, a
\* root or a prefix component.
Unacceptable(name, os) ==
    \/ name = <<>>
    \/ Kinds(components(name, os)) \cap {"ParentDir", "RootDir", "Prefix"} /= {}

\* The call failed and left the store as it was.
FailsCreatingNothing ==
    /\ path_result'.result.code /= "Ok"
    /\ dir' = dir /\ inode' = inode /\ task' = task

EndsInSync == ends_with_sync(path_result'.result.value[1].file)

C5_UpdateThenRead ==
    [][\A t \in Tasks :
          (/\ task[t].op = "update_payload"
           /\ task[t].pc /= "idle"
           /\ task'[t].pc = "idle"
           /\ outcome'[t].code = "Ok")
          => /\ archive'[t] /= None
             /\ archive'[t][1].payload_size = Some(Len(task[t].src))
             /\ read_payload(dir', inode', zip_deflate, archive'[t][1])
                    = OkResult(task[t].src)
             /\ SyncArchive_open(dir', inode', zip_deflate, archive'[t][1].path).value
                    = archive'[t]
             /\ read_at(FileBytes(inode'[dir'[archive'[t][1].path]]),
                        archive'[t][1].payload_offset[1],
                        archive'[t][1].payload_size[1]) = task[t].src]_vars

\* update_payload of the empty payload has returned success on the archive
\* that held a compressed module: every entry is stored now, the payload is
\* last and its size is 0.
C5_Witness ==
    /\ task["t1"].pc = "idle"
    /\ outcome["t1"].code = "Ok"
    /\ archive["t1"] /= None
    /\ archive["t1"][1].payload_size = Some(0)
    /\ Len(archive["t1"][1].entries) = 4
    /\ archive["t1"][1].entries[4].name = "payload"
    /\ \A i \in 1..4 : archive["t1"][1].entries[i].compression = "Stored"
    /\ FileAt(dir, inode, ArchiveA) /= None
    /\ \A i \in 1..4 : inode[dir[ArchiveA]].entries[i].compression = "Stored"

\* b1 || ... || bn for a handle that took n writes.
Written(n) == Concat([k \in 1..n |-> Chunk(k)])

\* The content type the table gives for a name's extension.
TableContentType(name) ==
    IF name \in {<<"a", "txt">>, <<"b", "TXT">>, <<"", "_a", "txt">>}
    THEN "text/plain" ELSE "application/octet-stream"

\* What a successful flush of task t's write handle leaves: the archive at
\* the handle's target holds the bytes written, an existing archive keeps
\* its other entries, a new one has the content type of the table, and the
\* handle's name resolves to that archive.
FlushCommitted(t) ==
    LET h == handle[t]
        target == IF h.is_existing THEN h.target ELSE sync_path_for(h.name)
        after == SyncArchive_open(dir', inode', zip_deflate, target)
    IN
    /\ h.buffer = Written(h.writes)
    /\ after.code = "Ok"
    /\ read_payload(dir', inode', zip_deflate, after.value[1]) = OkResult(h.buffer)
    /\ resolve_sync_path(dir', inode', zip_deflate, h.name) = {Some(target)}
    /\ IF h.is_existing
       THEN /\ task[t].op = "update_payload_from_path"
            /\ FileAt(dir, inode, target) /= None
            /\ NonPayload(inode'[dir'[target]].entries)
                   = NonPayload(inode[dir[target]].entries)
       ELSE /\ task[t].op = "create_sync_from_path"
            /\ after.value[1].manifest.content_type = TableContentType(h.name)

\* What a read handle has returned: the first `position` bytes of the payload
\* of the archive its name resolves to.
ReadsPayload(t) ==
    LET h == handle'[t] IN
    \E found \in resolve_sync_path(dir', inode', zip_deflate, h.name) :
        /\ found /= None
        /\ dir'[found[1]] = h.ino
        /\ LET payload == read_payload(dir', inode', zip_deflate, [path |-> found[1]])
           IN /\ payload.code = "Ok"
              /\ h.size = Len(payload.value[1])
              /\ h.position <= h.size
              /\ h.data = SubSeq(payload.value[1], 1, h.position)

\* The step at which flush returns success on a handle opened for write.
FlushReturnsOk(t) ==
    \/ /\ task[t].commits
       /\ task[t].pc /= "idle"
       /\ task'[t].pc = "idle"
       /\ outcome'[t].code = "Ok"
    \/ /\ handle[t].kind = "Noop"
       /\ handle[t].options.write
       /\ handle[t].options.create
       /\ flush(t)

\* C9 as stated: every successful flush of a handle opened for write leaves
\* the bytes written in the archive of its path, updated or created, and a
\* later read handle of the path returns the archive's payload.
C9_FlushThenRead ==
    [][\A t \in Tasks :
          /\ FlushReturnsOk(t) => FlushCommitted(t)
          /\ handle'[t].kind = "Read" => ReadsPayload(t)]_vars

\* C9, amended: the same for every path whose name is not an ignored one
\* (a name that begins with "._" or is ".DS_Store").
C9_FlushThenReadUnlessIgnored ==
    [][\A t \in Tasks :
          /\ (FlushReturnsOk(t) /\ ~is_ignored_name(handle[t].name))
                 => FlushCommitted(t)
          /\ handle'[t].kind = "Read" => ReadsPayload(t)]_vars

\* A read handle on b.TXT has returned x, y, z, all of the payload of the
\* archive b.TXT.sync that a flush created with content type text/plain.
C9_Witness ==
    /\ handle["t1"].kind = "Read"
    /\ handle["t1"].name = <<"b", "TXT">>
    /\ handle["t1"].data = <<"x", "y", "z">>
    /\ handle["t1"].position = handle["t1"].size
    /\ dir[<<"b", "TXT", "sync">>] /= 0
    /\ inode[dir[<<"b", "TXT", "sync">>]].entries[1].data = ManifestToml("text/plain", "TXT")

\* The payload entry's data in the file of inode number i, if it has one.
PayloadIn(i) ==
    LET payloads == IndicesOf(inode[i].entries, "payload") IN
    IF payloads = {} THEN None ELSE Some(inode[i].entries[Max(payloads)].data)

CommitCalls == {"update_payload_from_path", "flush"}

\* C7: with two callers committing to a.sync concurrently, no commit call
\* returns an error, a.sync changes only at a caller's rename, and that
\* rename leaves a complete archive that opens, keeps the other entries and
\* holds exactly that caller's payload - so the payload afterwards is the one
\* of the caller that renamed last.
C7_LastRenameWins ==
    [][/\ \A t \in Tasks :
             outcome'[t].call \in CommitCalls => outcome'[t].code = "Ok"
       /\ FileAt(dir', inode', ArchiveA) /= FileAt(dir, inode, ArchiveA) =>
             \E t \in Tasks :
                 /\ task[t].pc = "rename"
                 /\ task'[t].pc = "idle"
                 /\ outcome'[t].code = "Ok"
                 /\ inode'[dir'[ArchiveA]].finished
                 /\ SyncArchive_open(dir', inode', zip_deflate, ArchiveA).code = "Ok"
                 /\ read_payload(dir', inode', zip_deflate, [path |-> ArchiveA])
                        = OkResult(task[t].src)
                 /\ NonPayload(inode'[dir'[ArchiveA]].entries)
                        = NonPayload(inode[dir[ArchiveA]].entries)]_vars

\* The second caller's update has returned and a.sync holds its payload,
\* while the first caller, which began on the archive before that, holds its
\* finished temp file and is about to rename it.
C7_Witness ==
    /\ task["t1"].pc = "rename"
    /\ task["t1"].op = "update_payload_from_path"
    /\ Len(task["t1"].zip) = 3
    /\ task["t1"].zip[2].data = <<"h", "i">>
    /\ task["t2"].pc = "idle"
    /\ outcome["t2"] = [call |-> "update_payload_from_path", code |-> "Ok", detail |-> ""]
    /\ PayloadIn(dir[ArchiveA]) = Some(StorePayload("t2"))
    /\ PayloadIn(task["t1"].tmp_ino) = Some(StorePayload("t1"))

\* C8 as stated: whatever a read handle has returned is the first bytes of
\* the payload of the one archive file it holds open, and once it has read,
\* its offset and size are that file's payload offset and size.
C8_ReaderOneVersion ==
    \A t \in Tasks :
        handle[t].kind = "Read" =>
            LET h == handle[t]
                entries == inode[h.ino].entries
                payloads == IndicesOf(entries, "payload")
            IN /\ payloads /= {}
               /\ h.data = SubSeq(entries[Max(payloads)].data, 1, Len(h.data))
               /\ h.position > 0 =>
                     /\ h.offset = data_start(entries, Max(payloads))
                     /\ h.size = Len(entries[Max(payloads)].data)

\* C33: with two update_payload calls running concurrently on the same
\* archive path, under every interleaving the writers do not share or
\* truncate each other's temp file, the archive path never holds a partially
\* written archive, and once both calls are over the archive is complete,
\* opens, and its payload is one of the two writers' payloads.
C33_ConcurrentUpdatesKeepArchiveWhole ==
    LET r == SyncArchive_open(dir, inode, zip_deflate, ArchiveA)
        over(t) == task[t].pc = "idle" /\ outcome[t].call = "update_payload"
    IN
    /\ \A t \in Tasks, u \in Tasks :
          (t /= u /\ task[t].tmp_ino /= 0) => task[t].tmp_ino /= task[u].tmp_ino
    /\ dir[ArchiveA] /= 0
    /\ r.code = "Ok"
    /\ PayloadIn(dir[ArchiveA]) \in
          {Some(<<"h", "i">>)} \cup {Some(StorePayload(t)) : t \in Tasks}
    /\ (\A t \in Tasks : over(t))
          => PayloadIn(dir[ArchiveA]) \in {Some(StorePayload(t)) : t \in Tasks}

\* C34: in writable mode, whenever rename(from, to) on a file returns an
\* error the store is unchanged: the source archive and an archive that was
\* at the destination still exist with their contents; renaming a file to a
\* name that resolves to the same archive never deletes it.
C34_FailedRenameChangesNothing ==
    [][(listing'.call = "rename" /\ listing'.code /= "Ok")
       => StoreArchives(dir', inode') = StoreArchives(dir, inode)
      ]_vars

\* C36: while a create_sync_from_path or update_payload_from_path is in
\* progress, a concurrent list_syncs or directory listing of the file server
\* returns only committed archives: the temp file of the operation is never
\* an entry of it.
C36_ListingsHideTempFiles ==
    /\ listing.call = "list_syncs"
          => \A t \in Tasks : TempPathFor(t) \notin listing.names
    /\ listing.call = "read_dir"
          => \A t \in Tasks : file_stem(TempPathFor(t)) \notin listing.names

\* C35: every file create_sync_from_path, update_payload_from_path or
\* remove_sync creates, replaces or deletes lies under the store's base_dir,
\* for every name or path they accept, relative, with a leading slash or
\* absolute: no store operation touches a file outside the root.
C35_StoreStaysUnderRoot ==
    [][/\ dir'[OutsideArchive] = dir[OutsideArchive]
       /\ dir[OutsideArchive] /= 0
             => inode'[dir[OutsideArchive]] = inode[dir[OutsideArchive]]
      ]_vars

\* C37: in every directory listing of the writable file server the display
\* names of the files are pairwise distinct, and opening a listed name
\* resolves to the very archive that produced the entry, for every set of
\* archives a directory can hold.
C37_ListedNamesAreDistinct ==
    LET listed == dir_entries(dir, inode, zip_deflate, "") IN
    /\ \A e \in listed, f \in listed :
          e.display_name = f.display_name => e.path = f.path
    /\ \A e \in listed :
          (IF sync_path_for(e.display_name) \in DOMAIN dir
           THEN resolve_sync_path(dir, inode, zip_deflate, e.display_name)
           ELSE find_sync_in_dir(dir, inode, zip_deflate, e.display_name))
              = {Some(e.path)}

\* C38: a write handle of the writable file server commits to the store at
\* most once: a write before flush changes no archive of the store, the
\* store changes only at the step that ends the first successful flush,
\* every later flush is a no-op, every write after a successful flush fails
\* with Forbidden, a flush whose commit fails leaves the handle uncommitted
\* and the store as it was, and a handle dropped without flush commits
\* nothing.
C38_HandleCommitsOnce ==
    [][/\ StoreArchives(dir', inode') /= StoreArchives(dir, inode)
             => \E t \in Tasks :
                   /\ handle[t].kind = "Write"
                   /\ task[t].commits
                   /\ ~handle[t].committed
                   /\ handle'[t].committed
                   /\ outcome'[t] = [call |-> "flush", code |-> "Ok", detail |-> ""]
       /\ \A t \in Tasks :
          LET h == handle[t]
              same_store == StoreArchives(dir', inode') = StoreArchives(dir, inode)
              returned == task[t].pc = "idle" /\ task'[t].pc = "idle"
                              /\ h.kind = "Write" /\ handle'[t].kind = "Write"
                              /\ outcome'[t] /= outcome[t]
          IN /\ (returned /\ outcome'[t].call = "write_bytes")
                   => /\ same_store
                      /\ outcome'[t].code = (IF h.committed THEN "Forbidden" ELSE "Ok")
             /\ (returned /\ outcome'[t].call = "flush")
                   => /\ h.committed
                      /\ outcome'[t].code = "Ok"
                      /\ same_store
                      /\ handle'[t] = h
             /\ (h.kind = "Write" /\ h.committed) => same_store
             /\ (h.kind = "Write" /\ task[t].commits /\ task'[t].pc = "idle")
                   => IF outcome'[t].code = "Ok"
                      THEN ~h.committed /\ handle'[t].committed
                      ELSE ~handle'[t].committed /\ same_store
      ]_vars

\* After a successful flush the handle was written to again and refused.
C38_Witness ==
    /\ handle["t1"].kind = "Write"
    /\ handle["t1"].committed
    /\ handle["t1"].writes > 0
    /\ outcome["t1"] = [call |-> "write_bytes", code |-> "Forbidden", detail |-> ""]
    /\ PayloadIn(dir[sync_path_for(handle["t1"].name)]) = Some(handle["t1"].buffer)

C40_NegativeArgumentsFailCleanly ==
    [][(/\ runner'.calls = runner.calls + 1
        /\ runner'.call \in {"payload_read", "payload_write", "last_response_read"}
        /\ (runner'.offset < 0 \/ runner'.len < 0))
       => /\ runner'.pc /= "panicked"
          /\ runner'.ret <= 0
          /\ LET source == IF runner'.call = "payload_read"
                           THEN host_state[1].payload_buffer
                           ELSE IF runner'.call = "last_response_read"
                           THEN host_state[1].last_response
                           ELSE <<>>
             IN \E i \in 0..Len(source) :
                   /\ i + Len(runner'.out) <= Len(source)
                   /\ runner'.out = SubSeq(source, i + 1, i + Len(runner'.out))
          /\ host_state' = host_state]_vars

(***************************************************************************)
(* C31: verify_sync_file returns valid = true exactly when the algorithm   *)
(* is "Ed25519", the hash of the whole file is the signature's             *)
(* content_hash, the signer's DID is the did:key of a 32-byte Ed25519 key  *)
(* and the signature is that key's signature of the raw hash. A file that  *)
(* was changed after it was signed gives a returned result with valid =    *)
(* false and a "hash mismatch" error; and whenever the hashes differ the   *)
(* result is returned, carries no key, and verify was never called.        *)
(***************************************************************************)
C31_ValidExactlyWhenSignedContent ==
    verification.signature /= None =>
        LET signature == verification.signature[1]
            file == verification.verified
            returned == verification.returned
            hash == blake3_hash(file[1])
            valid == returned.code = "Ok" /\ returned.value[1].valid
        IN /\ valid <=>
                 /\ signature.algorithm = "Ed25519"
                 /\ file /= None
                 /\ signature.content_hash = <<"blake3:", [hex |-> hash]>>
                 /\ \E key \in SigningKeys :
                       /\ signature.public_key
                              = <<"did:key:z",
                                  [base58 |-> <<237, 1>> \o [i \in 1..32 |-> key]]>>
                       /\ signature.signature
                              = [base64 |-> [signer |-> key, message |-> hash, len |-> 64]]
           /\ \A key \in SigningKeys, bytes \in FileContents :
                 (signature = sign_file(key, bytes) /\ file /= None /\ file[1] /= bytes)
                 => /\ returned.code = "Ok"
                    /\ ~returned.value[1].valid
                    /\ returned.value[1].error /= None
                    /\ \E i \in DOMAIN returned.value[1].error[1] :
                          returned.value[1].error[1][i] = "hash mismatch"
           /\ (/\ signature.algorithm = "Ed25519"
               /\ file /= None
               /\ signature.content_hash /= <<"blake3:", [hex |-> hash]>>)
              => /\ returned.code = "Ok"
                 /\ ~returned.value[1].valid
                 /\ returned.value[1].public_key_bytes = None
                 /\ \A i \in DOMAIN verification.calls :
                       verification.calls[i] \notin {"extract_public_key", "verify"}

\* The file was signed as "test" and holds "tesT" when it is verified: the
\* call returned valid = false.
C31_Witness ==
    /\ verification.signature = Some(sign_file("k1", <<"t", "e", "s", "t">>))
    /\ verification.verified = Some(<<"t", "e", "s", "T">>)
    /\ verification.returned.code = "Ok"
    /\ ~verification.returned.value[1].valid

====
